---- MODULE Spec2Model ----
(***************************************************************************)
(* A model of the payroll regulatory audit agent (src/audit.py): the       *)
(* relevance filter (class Filters), the fingerprint store (class          *)
(* Database), the Telegram reporter and the scan pipeline (Scanner.run).   *)
(*                                                                         *)
(* Texts and URLs are TLA+ strings; a character is a string of length 1.   *)
(* Scores are integers in hundredths (0.25 is 25): every weight of the     *)
(* source is a multiple of 0.05.                                           *)
(***************************************************************************)
EXTENDS Integers, Sequences, FiniteSets, TLC

VARIABLES
  \* one call of Filters.passes_filter and its arguments
  ftext,      \* the text argument
  furl,       \* the url argument
  fres,       \* what the last call returned, with its min_score; NoResult before
  fprev,      \* the result and factors of the call before the text was extended
  ffactors,   \* what the score of the last call on an extended text was made of
  \* one call of GeminiAnalyzer.analyze, and one call of a send function
  acall,      \* the document, its content, the responses, and what analyze gave
  scall,      \* the function, the message, the responses, and what was posted
  \* the requests of one scan to the domains of its sources
  now,          \* the clock, in half seconds
  rate_limiter, \* Scanner.rate_limiter: per domain, the time of line 971
  tasks,        \* per _scan_repo task: where it is, and when its sleep ends
  requests,     \* the GETs started, in order
  \* payroll_news_monitor.py: the store, one run of main, and an observer
  sent_articles, \* the rows of the sent_articles table
  news_log,      \* the rows of the scan_log table of the monitor
  monitor,       \* main: where it is, and its local variables
  submitted,     \* per run, the links handed to the classifier and its verdicts
  posted,        \* per call of send_message, the links in the text and what it returned
  \* calude_audit.py: the notifications table and one run of run_full_scan
  notifications, \* the rows of the notifications table
  audit,         \* run_full_scan: where it is, and its local variables
  crashes,       \* how often the process was killed
  \* the store (class Database)
  documents,  \* the rows of the documents table
  scan_log,   \* the rows of the scan_log table
  \* one run of Scanner.run
  pc,         \* where the run is
  fetched,    \* per source: whether its task is done, succeeded, and its candidates
  all_docs,   \* the candidates of all sources
  new_docs,   \* the candidates whose URL the store did not know
  relevant,   \* the documents the analyzer judged relevant
  cursor,     \* how many of new_docs the current loop has handled
  sent,       \* the messages handed to TelegramReporter.send in this run
  scans,      \* the number of runs started
  process,    \* whether the process of the last run has exited, and its status
  \* what an observer records
  classified, \* the URLs submitted to the analyzer in this run, in order
  persisted,  \* the URLs passed to save_document in this run, in order
  attempts,   \* per document of classified, what analyze was answered and gave
  delivered,  \* per message of sent, the response to its POST and what send returned
  hist,       \* what earlier runs did
  saves       \* per URL, what save_document was last called with and raised

filterVars == <<ftext, furl, fres, fprev, ffactors>>
rateVars == <<now, rate_limiter, tasks, requests>>
monitorVars == <<sent_articles, news_log, monitor, submitted, posted>>
auditVars == <<notifications, audit, crashes>>
otherVars == <<rateVars, monitorVars, auditVars>>
callVars == <<acall, scall, otherVars>>
storeVars == <<documents, scan_log>>
scanVars == <<pc, fetched, all_docs, new_docs, relevant, cursor, sent, scans, process>>
observerVars == <<classified, persisted, attempts, delivered, hist, saves>>
vars == <<ftext, furl, fres, fprev, ffactors, acall, scall, now, rate_limiter, tasks,
          requests, sent_articles, news_log, monitor, submitted, posted,
          notifications, audit, crashes, documents, scan_log,
          pc, fetched, all_docs, new_docs, relevant, cursor, sent, scans, process,
          classified, persisted, attempts, delivered, hist, saves>>

(***************************************************************************)
(* Strings: str.lower, str.split / ' '.join, in, startswith, endswith.     *)
(***************************************************************************)
UpperAlpha == "ABCDEFGHIJKLMNOPQRSTUVWXYZ"
LowerAlpha == "abcdefghijklmnopqrstuvwxyz"
DigitChars == {"0", "1", "2", "3", "4", "5", "6", "7", "8", "9"}
SpaceChars == {" ", "\t", "\n"}
UpperChars == {SubSeq(UpperAlpha, i, i) : i \in 1..26}
LowerChars == {SubSeq(LowerAlpha, i, i) : i \in 1..26}
WordChars == UpperChars \cup LowerChars \cup DigitChars \cup {"_"}

CharAt(s, i) == SubSeq(s, i, i)

LowerChar(c) ==
  IF c \in UpperChars
  THEN LET i == CHOOSE j \in 1..26 : SubSeq(UpperAlpha, j, j) = c
       IN  SubSeq(LowerAlpha, i, i)
  ELSE c

\* str.lower(), character by character (the string is halved at each step
\* to keep the evaluation shallow)
RECURSIVE Lower(_)
Lower(s) ==
  IF Len(s) = 0 THEN ""
  ELSE IF Len(s) = 1 THEN LowerChar(s)
  ELSE LET mid == Len(s) \div 2
       IN  Lower(SubSeq(s, 1, mid)) \o Lower(SubSeq(s, mid + 1, Len(s)))

\* ' '.join(s.strip().split()): a run of whitespace between two words becomes
\* one space; leading and trailing whitespace goes.  JoinSplitChar is what
\* the character at i contributes; last is the index of the last character
\* that is not whitespace (0 when there is none).
IsSpaceAt(s, i) == CharAt(s, i) \in SpaceChars

LastNonSpace(s) ==
  LET idx == {i \in 1..Len(s) : ~IsSpaceAt(s, i)}
  IN  IF idx = {} THEN 0 ELSE CHOOSE i \in idx : \A j \in idx : j <= i

JoinSplitChar(s, i, last) ==
  IF ~IsSpaceAt(s, i) THEN CharAt(s, i)
  ELSE IF i > 1 /\ ~IsSpaceAt(s, i - 1) /\ i < last THEN " "
  ELSE ""

RECURSIVE JoinSplitRange(_, _, _, _)
JoinSplitRange(s, lo, hi, last) ==
  IF lo > hi THEN ""
  ELSE IF lo = hi THEN JoinSplitChar(s, lo, last)
  ELSE LET mid == (lo + hi) \div 2
       IN  JoinSplitRange(s, lo, mid, last) \o JoinSplitRange(s, mid + 1, hi, last)

JoinSplit(s) == JoinSplitRange(s, 1, Len(s), LastNonSpace(s))

StartsWith(s, p) == Len(p) <= Len(s) /\ SubSeq(s, 1, Len(p)) = p
EndsWith(s, p) == Len(p) <= Len(s) /\ SubSeq(s, Len(s) - Len(p) + 1, Len(s)) = p
Contains(s, p) ==
  \E i \in 0..(Len(s) - Len(p)) : SubSeq(s, i + 1, i + Len(p)) = p

(***************************************************************************)
(* Regular expressions (re.search): a pattern is a tree, and Ends(r, s, P) *)
(* is the set of positions at which a match of r that starts at a position *)
(* of P can end.  Position p means that p characters are consumed.         *)
(***************************************************************************)
Lit(s) == [k |-> "lit", s |-> s]
Cls(S) == [k |-> "cls", s |-> S]
Cat(a) == [k |-> "cat", a |-> a]
Alt(a) == [k |-> "alt", a |-> a]
Rep(r, lo, hi) == [k |-> "rep", r |-> r, lo |-> lo, hi |-> hi]
Unbounded == -1
Opt(r) == Rep(r, 0, 1)
Star(r) == Rep(r, 0, Unbounded)
Plus(r) == Rep(r, 1, Unbounded)
WordBoundary == [k |-> "wb"]
EndOfString == [k |-> "eos"]

IsWordAt(s, i) == i >= 1 /\ i <= Len(s) /\ CharAt(s, i) \in WordChars

RECURSIVE Ends(_, _, _)
Ends(r, s, P) ==
  CASE r.k = "lit" ->
         {q + Len(r.s) : q \in {p \in P : /\ p + Len(r.s) <= Len(s)
                                          /\ SubSeq(s, p + 1, p + Len(r.s)) = r.s}}
    [] r.k = "cls" ->
         {q + 1 : q \in {p \in P : p < Len(s) /\ CharAt(s, p + 1) \in r.s}}
    [] r.k = "cat" ->
         IF r.a = <<>> THEN P
         ELSE Ends(Cat(Tail(r.a)), s, Ends(Head(r.a), s, P))
    [] r.k = "alt" -> UNION {Ends(r.a[i], s, P) : i \in DOMAIN r.a}
    [] r.k = "rep" ->
         IF P = {} THEN {}
         ELSE IF r.lo > 0
         THEN Ends(Rep(r.r, r.lo - 1, IF r.hi < 0 THEN r.hi ELSE r.hi - 1), s,
                   Ends(r.r, s, P))
         ELSE IF r.hi = 0 THEN P
         ELSE P \cup Ends(Rep(r.r, 0, IF r.hi < 0 THEN r.hi ELSE r.hi - 1), s,
                          Ends(r.r, s, P) \ P)
    [] r.k = "wb" -> {p \in P : IsWordAt(s, p) # IsWordAt(s, p + 1)}
    [] r.k = "eos" -> {p \in P : p = Len(s)}

Search(r, s) == Ends(r, s, 0..Len(s)) # {}

(***************************************************************************)
(* class Patterns                                                          *)
(***************************************************************************)
Digit == Cls(DigitChars)
Ws == Cls(SpaceChars)
DateSep == Cls({".", "/", "-"})
Dash == Cls({"-", "/"})
Year20 == Cat(<<Lit("20"), Rep(Digit, 2, 2)>>)
Month ==
  Alt(<<Lit("january"), Lit("february"), Lit("march"), Lit("april"),
        Lit("may"), Lit("june"), Lit("july"), Lit("august"),
        Lit("september"), Lit("october"), Lit("november"), Lit("december")>>)

\* Patterns.DATES, in the order of the source; the third to fifth are re.I.
DATES ==
  << [i |-> FALSE, r |-> Cat(<<Rep(Digit, 1, 2), DateSep, Rep(Digit, 1, 2),
                              DateSep, Year20>>)],
     [i |-> FALSE, r |-> Cat(<<Year20, DateSep, Rep(Digit, 1, 2), DateSep,
                              Rep(Digit, 1, 2)>>)],
     [i |-> TRUE,  r |-> Cat(<<Month, Plus(Ws), Rep(Digit, 1, 2), Opt(Lit(",")),
                              Plus(Ws), Year20>>)],
     [i |-> TRUE,  r |-> Cat(<<Rep(Digit, 1, 2), Plus(Ws), Month, Opt(Lit(",")),
                              Plus(Ws), Year20>>)],
     [i |-> TRUE,  r |-> Cat(<<Lit("date"), Opt(Lit("d")), Star(Ws),
                              Opt(Lit(":")), Star(Ws), Rep(Digit, 1, 2),
                              DateSep, Rep(Digit, 1, 2), DateSep, Year20>>)] >>

NoDot == Cat(<<Lit("no"), Opt(Lit("."))>>)

\* Patterns.DOC_IDS, in the order of the source; the first five are re.I.
DOC_IDS ==
  << [i |-> TRUE,
      r |-> Cat(<<Alt(<<Lit("circular"), Lit("notification"), Lit("order"),
                        Lit("memo"), Lit("advisory"), Lit("resolution")>>),
                  Star(Ws),
                  Alt(<<NoDot, Lit("number"), Lit("#")>>),
                  Star(Ws),
                  Plus(Cls(WordChars \cup {".", "/", "-"}))>>)],
     [i |-> TRUE,
      r |-> Cat(<<Alt(<<Lit("rmc"), Lit("rmo"), Lit("rr"), Lit("da"),
                        Lit("do"), Lit("la")>>),
                  Star(Ws), Opt(NoDot), Star(Ws),
                  Plus(Cls(DigitChars \cup {"-"}))>>)],
     [i |-> TRUE,
      r |-> Cat(<<Lit("f"), Opt(Lit(".")), Star(Ws), NoDot, Star(Ws),
                  Plus(Cls(DigitChars \cup {"/", ".", "-"}))>>)],
     [i |-> TRUE,
      r |-> Cat(<<Alt(<<NoDot, Lit("number")>>), Star(Ws),
                  Plus(Digit), Dash, Plus(Digit),
                  Opt(Cat(<<Dash, Plus(Digit)>>))>>)],
     [i |-> TRUE,
      r |-> Cat(<<Alt(<<Cat(<<Lit("s"), Opt(Lit(".")), Lit("o"), Opt(Lit("."))>>),
                        Cat(<<Lit("g"), Opt(Lit(".")), Lit("s"), Opt(Lit(".")),
                              Lit("r"), Opt(Lit("."))>>)>>),
                  Star(Ws), Plus(Digit)>>)],
     [i |-> FALSE,
      r |-> Cat(<<WordBoundary, Rep(Digit, 1, 4), Dash, Year20, WordBoundary>>)],
     [i |-> FALSE,
      r |-> Cat(<<WordBoundary, Rep(Cls(UpperChars), 2, 5), Opt(Dash),
                  Rep(Digit, 2, 5), Opt(Dash), Year20, WordBoundary>>)] >>

\* Patterns.YEAR
YEAR == Cat(<<WordBoundary, Lit("202"), Cls({"3", "4", "5", "6"}), WordBoundary>>)

\* Patterns.FILE_EXT (re.I)
FILE_EXT ==
  Cat(<<Lit("."),
        Alt(<<Lit("pdf"), Lit("docx"), Lit("doc"), Lit("xlsx"), Lit("xls"),
              Lit("rtf")>>),
        Alt(<<Lit("?"), EndOfString>>)>>)

\* any(p.search(s) for p in patterns); a pattern compiled with re.I is
\* written in lower case and searched in the lower-cased string.
AnyMatches(patterns, s) ==
  LET lowered == Lower(s)
  IN  \E n \in DOMAIN patterns :
        Search(patterns[n].r, IF patterns[n].i THEN lowered ELSE s)

(***************************************************************************)
(* class Filters.  The three word lists hold the entries of the source     *)
(* lists that can occur in a text over Vocab (and some that cannot): an    *)
(* entry that is a substring of no text of the model changes no result.    *)
(***************************************************************************)
NAVIGATION_BLOCKLIST ==
  {"home", "about", "about us", "contact", "contact us", "search", "login",
   "help", "news", "next", "page", "e-filing", "tax rates", "withholding tax",
   "circulars", "notifications", "public notices", "guidelines for"}

DOCUMENT_KEYWORDS ==
  {"circular", "notification", "order", "resolution", "memo", "advisory",
   "gazette", "notice", "amendment", "act", "bill", "rule", "regulation",
   "press release", "public notice"}

REGULATORY_KEYWORDS ==
  {"income tax", "vat", "gst", "withholding tax", "tds", "tax rate",
   "filing", "return", "minimum wage", "salary", "pension", "epf",
   "contribution", "employer contribution", "compliance", "penalty",
   "registration"}

nav_url_patterns ==
  {"/about", "/contact", "/login", "/register", "/search", "/help", "/faq",
   "/privacy", "/terms", "/sitemap", "/careers", "/jobs", "/services",
   "/products", "?lang=", "&lang=", "#", "javascript:", "mailto:", "tel:"}

url_indicators ==
  {"/circular", "/notification", "/order", "/gazette", "/notice", "download",
   "attachment"}

Min(a, b) == IF a <= b THEN a ELSE b

blocklist_count(normalized) ==
  Cardinality({b \in NAVIGATION_BLOCKLIST : Contains(normalized, b)})

\* is_navigation_junk without the URL rule of lines 324-333
is_navigation_junkIgnoresUrl(text, url) ==
  LET normalized == JoinSplit(Lower(text))
  IN  \/ Len(normalized) < 8
      \/ normalized \in NAVIGATION_BLOCKLIST
      \/ /\ Len(normalized) < 50
         /\ \E blocked \in NAVIGATION_BLOCKLIST :
              StartsWith(normalized, blocked) \/ EndsWith(normalized, blocked)
      \/ (blocklist_count(normalized) >= 2 /\ Len(normalized) < 60)

is_navigation_junk(text, url) ==
  LET normalized == JoinSplit(Lower(text))
      url_lower == Lower(url)
  IN  \/ Len(normalized) < 8
      \/ normalized \in NAVIGATION_BLOCKLIST
      \/ /\ Len(normalized) < 50
         /\ \E blocked \in NAVIGATION_BLOCKLIST :
              StartsWith(normalized, blocked) \/ EndsWith(normalized, blocked)
      \/ (blocklist_count(normalized) >= 2 /\ Len(normalized) < 60)
      \/ \E pattern \in nav_url_patterns :
           Contains(url_lower, pattern) /\ ~Contains(url_lower, ".pdf")

doc_keyword_count(text) ==
  LET text_lower == Lower(text)
  IN  Cardinality({kw \in DOCUMENT_KEYWORDS : Contains(text_lower, kw)})

reg_keyword_count(text) ==
  LET text_lower == Lower(text)
  IN  Cardinality({kw \in REGULATORY_KEYWORDS : Contains(text_lower, kw)})

\* min(reg_keyword_count * 0.05, 0.15), in hundredths
RegulatoryWeightBroken(count) == IF count * 5 > 15 THEN 0 ELSE count * 5
RegulatoryWeight(count) == Min(count * 5, 15)

\* min(doc_keyword_count * 0.1, 0.2), in hundredths
DocumentWeight(count) == Min(count * 10, 20)

LengthBonus(text) ==
  (IF Len(text) > 30 THEN 5 ELSE 0) + (IF Len(text) > 60 THEN 5 ELSE 0)

\* The evidence calculate_relevance_score adds up, in the order of the source.
ScoreFactors(text, url) ==
  LET url_lower == Lower(url)
  IN  [file_ext |-> IF Search(FILE_EXT, url_lower) THEN 30 ELSE 0,
       doc_id   |-> IF AnyMatches(DOC_IDS, text) THEN 25 ELSE 0,
       date     |-> IF AnyMatches(DATES, text) THEN 15 ELSE 0,
       year     |-> IF Search(YEAR, text) THEN 10 ELSE 0,
       doc_kw   |-> DocumentWeight(doc_keyword_count(text)),
       reg_kw   |-> RegulatoryWeight(reg_keyword_count(text)),
       url_ind  |-> IF \E ind \in url_indicators : Contains(url_lower, ind)
                    THEN 10 ELSE 0,
       length   |-> LengthBonus(text)]

SumFactors(f) ==
  f.file_ext + f.doc_id + f.date + f.year + f.doc_kw + f.reg_kw + f.url_ind
    + f.length

calculate_relevance_scoreUnclamped(text, url) == SumFactors(ScoreFactors(text, url))
calculate_relevance_score(text, url) ==
  Min(SumFactors(ScoreFactors(text, url)), 100)

\* the default of the min_score parameter
DEFAULT_MIN_SCORE == 25

passes_filterExclusive(text, url, min_score) ==
  IF is_navigation_junk(text, url) THEN [pass |-> FALSE, score |-> 0]
  ELSE LET score == calculate_relevance_score(text, url)
       IN  [pass |-> score > min_score, score |-> score]
passes_filterNoJunkGate(text, url, min_score) ==
  LET score == calculate_relevance_score(text, url)
  IN  [pass |-> score >= min_score, score |-> score]
passes_filter(text, url, min_score) ==
  IF is_navigation_junk(text, url) THEN [pass |-> FALSE, score |-> 0]
  ELSE LET score == calculate_relevance_score(text, url)
       IN  [pass |-> score >= min_score, score |-> score]

(***************************************************************************)
(* REPOSITORIES (two of the configured sources) and the pages a fetch of   *)
(* each can return.  An anchor is the href and the stripped text that      *)
(* BeautifulSoup gives for one <a href=...> element.                       *)
(***************************************************************************)
REPOSITORIES ==
  << [url |-> "https://incometaxindia.gov.in/pages/communications/circulars.aspx",
      country |-> "India", agency |-> "Income Tax"],
     [url |-> "https://www.kra.go.ke/news-center/public-notices",
      country |-> "Kenya", agency |-> "KRA"] >>

Repos == DOMAIN REPOSITORIES

Anchor(href, text) == [href |-> href, text |-> text]

PayeNotice ==
  Anchor("/notices/2025/fa-paye.pdf", "Finance Act 2025 PAYE Amendment Notice")
PayeNoticeAbsolute ==
  Anchor("https://www.kra.go.ke/notices/2025/fa-paye.pdf",
         "Finance Act 2025 PAYE Amendment Notice")
Circular12 ==
  Anchor("/communications/circular/circular-12-2024.pdf",
         "Circular No. 12/2024 dated 15.03.2024")
GazetteNotice ==
  Anchor("so-1234", "Gazette Notice SO 1234 on pension contribution")

\* the pages of the Income Tax source: a circular, a link to another site
\* that is no PDF, and a PDF on another site; or the same circular twice
IndiaPages ==
  { <<Circular12, Anchor("https://taxguru.example/act", "Income Tax Act amendments explained"),
      PayeNoticeAbsolute>>,
    <<Circular12, Anchor("#top", "Back to the top of this page"), Circular12>> }

\* the pages of the KRA source: a page with a menu around one notice, or a
\* page with that notice and another one
KenyaPages ==
  { <<Anchor("/", "Home"), PayeNotice, Anchor("/contact", "Contact Us")>>,
    <<GazetteNotice, Anchor("/faq", "FAQs"), PayeNotice>> }

Pages(r) == IF REPOSITORIES[r].country = "India" THEN IndiaPages ELSE KenyaPages

\* what session.get gives: an exception, or a status and a page
Responses(r) ==
  {[raised |-> FALSE, status |-> 200, anchors |-> p] : p \in Pages(r)}
    \cup {[raised |-> FALSE, status |-> 503, anchors |-> <<>>],
          [raised |-> TRUE, status |-> 0, anchors |-> <<>>]}

(***************************************************************************)
(* urllib.parse: urlparse(url).netloc and urljoin(base, href), for an href *)
(* that is absolute, starts with "/", or is a relative path.               *)
(***************************************************************************)
IndexOf(s, p) ==
  LET at == {i \in 1..(Len(s) - Len(p) + 1) : SubSeq(s, i, i + Len(p) - 1) = p}
  IN  IF at = {} THEN 0 ELSE CHOOSE i \in at : \A j \in at : i <= j

LastIndexOf(s, p) ==
  LET at == {i \in 1..(Len(s) - Len(p) + 1) : SubSeq(s, i, i + Len(p) - 1) = p}
  IN  IF at = {} THEN 0 ELSE CHOOSE i \in at : \A j \in at : j <= i

\* the index of the first "/" of the path, or Len(url) + 1
PathStart(url) ==
  LET scheme == IndexOf(url, "://")
      rest == SubSeq(url, scheme + 3, Len(url))
      slash == IndexOf(rest, "/")
  IN  IF slash = 0 THEN Len(url) + 1 ELSE scheme + 2 + slash

netloc(url) ==
  LET scheme == IndexOf(url, "://")
  IN  IF scheme = 0 THEN "" ELSE SubSeq(url, scheme + 3, PathStart(url) - 1)

urljoin(base, href) ==
  IF IndexOf(href, "://") > 0 THEN href
  ELSE IF StartsWith(href, "/") THEN SubSeq(base, 1, PathStart(base) - 1) \o href
  ELSE IF StartsWith(href, "#") THEN base \o href
  ELSE SubSeq(base, 1, LastIndexOf(base, "/")) \o href

(***************************************************************************)
(* class Document.  None is Python's None.  doc_id and date_published hold *)
(* the text a pattern captured; the model keeps a placeholder for it.      *)
(***************************************************************************)
None == "None"
DocIdText == "<doc-id>"
DateText == "<date>"

MAX_DOCUMENTS_PER_REPO == 30
GEMINI_BATCH_SIZE == 3

Take(seq, n) == SubSeq(seq, 1, Min(Len(seq), n))

Document(url, title, repo, score) ==
  [url |-> url, title |-> Take(title, 200), country |-> repo.country,
   agency |-> repo.agency,
   date_published |-> IF AnyMatches(DATES, title) THEN DateText ELSE None,
   doc_id |-> IF AnyMatches(DOC_IDS, title) THEN DocIdText ELSE None,
   is_pdf |-> EndsWith(Lower(url), ".pdf"),
   relevance_score |-> score,
   category |-> "other", ai_summary |-> None, is_relevant |-> FALSE]

(***************************************************************************)
(* Scanner._scan_repo: the candidates of one source.                       *)
(***************************************************************************)
\* the loop body: the document an anchor gives, or none
CandidateOf(repo, anchor) ==
  LET href == anchor.href
      text == anchor.text
      full_url == urljoin(repo.url, href)
      res == passes_filter(text, full_url, DEFAULT_MIN_SCORE)
  IN  IF href = "" \/ text = "" \/ Len(text) < 5 THEN <<>>
      ELSE IF StartsWith(href, "#") \/ StartsWith(href, "javascript:") THEN <<>>
      ELSE IF netloc(full_url) # netloc(repo.url) /\ ~EndsWith(Lower(full_url), ".pdf")
      THEN <<>>
      ELSE IF res.pass THEN <<Document(full_url, text, repo, res.score)>>
      ELSE <<>>

RECURSIVE CandidatesOf(_, _)
CandidatesOf(repo, anchors) ==
  IF anchors = <<>> THEN <<>>
  ELSE CandidateOf(repo, Head(anchors)) \o CandidatesOf(repo, Tail(anchors))

_scan_repo(repo, response) ==
  IF response.raised \/ response.status # 200 THEN <<>>
  ELSE Take(CandidatesOf(repo, response.anchors), MAX_DOCUMENTS_PER_REPO)

\* _scan_repo on every response of the model, computed once
Harvest == [r \in Repos |-> [resp \in Responses(r) |-> _scan_repo(REPOSITORIES[r], resp)]]

\* Scanner._scan_repos: the results of the tasks in the order of REPOSITORIES;
\* a task that failed has returned [] (or, under gather, an exception that is
\* skipped)
RECURSIVE Concat(_)
Concat(seqs) == IF seqs = <<>> THEN <<>> ELSE Head(seqs) \o Concat(Tail(seqs))

_scan_reposFailFast(results) ==
  IF \E r \in DOMAIN results : ~results[r].ok THEN <<>>
  ELSE Concat([r \in DOMAIN results |-> results[r].docs])
_scan_repos(results) ==
  Concat([r \in DOMAIN results |-> IF results[r].ok THEN results[r].docs ELSE <<>>])

(***************************************************************************)
(* class Database: the documents table is a set of rows.  url is the       *)
(* PRIMARY KEY and url_hash is UNIQUE; md5 is taken to be injective on the *)
(* URLs of the model.                                                      *)
(***************************************************************************)
md5(url) == <<"md5", url>>

\* a row whose url_hash is the hash of the title
RowHashesTitle(doc) ==
  [url |-> doc.url, url_hash |-> md5(doc.title), country |-> doc.country,
   agency |-> doc.agency, title |-> doc.title, doc_id |-> doc.doc_id,
   date_published |-> doc.date_published,
   relevance_score |-> doc.relevance_score, category |-> doc.category,
   ai_summary |-> doc.ai_summary, is_relevant |-> IF doc.is_relevant THEN 1 ELSE 0]

\* the values save_document binds; date_found and created_at, which are
\* times of day, are left out
Row(doc) ==
  [url |-> doc.url, url_hash |-> md5(doc.url), country |-> doc.country,
   agency |-> doc.agency, title |-> doc.title, doc_id |-> doc.doc_id,
   date_published |-> doc.date_published,
   relevance_score |-> doc.relevance_score, category |-> doc.category,
   ai_summary |-> doc.ai_summary, is_relevant |-> IF doc.is_relevant THEN 1 ELSE 0]

Conflicts(table, row) ==
  {r \in table : r.url = row.url \/ r.url_hash = row.url_hash}

\* INSERT OR REPLACE: the rows that conflict on a key are deleted first
InsertOrReplace(table, row) ==
  [rows |-> (table \ Conflicts(table, row)) \cup {row}, integrity_error |-> FALSE]
\* INSERT OR IGNORE: a row that conflicts is not inserted
save_documentOrIgnore(table, doc) ==
  [rows |-> IF Conflicts(table, Row(doc)) = {} THEN table \cup {Row(doc)} ELSE table,
   integrity_error |-> FALSE]
save_documentRelevantOnly(table, doc) ==
  IF doc.is_relevant THEN InsertOrReplace(table, Row(doc))
  ELSE [rows |-> table, integrity_error |-> FALSE]
save_document(table, doc) == InsertOrReplace(table, Row(doc))

SeqToSet(seq) == {seq[i] : i \in DOMAIN seq}

bulk_check_urlsAllNew(table, urls) == SeqToSet(urls)
bulk_check_urls(table, urls) ==
  IF urls = <<>> THEN {}
  ELSE LET existing == {row.url_hash : row \in table}
       IN  {u \in SeqToSet(urls) : md5(u) \notin existing}

(***************************************************************************)
(* class TelegramReporter.  A message is the text Python builds; an emoji  *)
(* is written as ASCII of the same number of code points (the shield with  *)
(* its variation selector is two).                                         *)
(***************************************************************************)
EmojiSiren == "!"
EmojiTax == "$"
EmojiLabor == "&"
EmojiPension == "%"
EmojiShield == "##"
EmojiClipboard == "="
EmojiPage == "~"
EmojiMemo == "N"
EmojiBulb == "S"
EmojiCalendar == "D"
EmojiLink == "L"
EmojiCheck == "V"
EmojiChart == "R"
Bullet == "-"

UpperChar(c) ==
  IF c \in LowerChars
  THEN LET i == CHOOSE j \in 1..26 : SubSeq(LowerAlpha, j, j) = c
       IN  SubSeq(UpperAlpha, i, i)
  ELSE c

\* str.upper()
RECURSIVE Upper(_)
Upper(s) ==
  IF Len(s) = 0 THEN ""
  ELSE IF Len(s) = 1 THEN UpperChar(s)
  ELSE LET mid == Len(s) \div 2
       IN  Upper(SubSeq(s, 1, mid)) \o Upper(SubSeq(s, mid + 1, Len(s)))

\* str.title(): a letter that follows a letter is lower-cased, any other
\* letter is upper-cased
RECURSIVE TitleRange(_, _, _)
TitleRange(s, lo, hi) ==
  IF lo > hi THEN ""
  ELSE IF lo = hi
  THEN IF lo > 1 /\ CharAt(s, lo - 1) \in (UpperChars \cup LowerChars)
       THEN LowerChar(CharAt(s, lo)) ELSE UpperChar(CharAt(s, lo))
  ELSE LET mid == (lo + hi) \div 2
       IN  TitleRange(s, lo, mid) \o TitleRange(s, mid + 1, hi)

Title(s) == TitleRange(s, 1, Len(s))

\* str.replace(old, new) for a single character old
RECURSIVE Replace(_, _, _)
Replace(s, old, new) ==
  IF Len(s) = 0 THEN ""
  ELSE IF Len(s) = 1 THEN (IF s = old THEN new ELSE s)
  ELSE LET mid == Len(s) \div 2
       IN  Replace(SubSeq(s, 1, mid), old, new)
             \o Replace(SubSeq(s, mid + 1, Len(s)), old, new)

\* str(n) for n >= 0
RECURSIVE Str(_)
Str(n) ==
  IF n < 10 THEN SubSeq("0123456789", n + 1, n + 1)
  ELSE Str(n \div 10) \o SubSeq("0123456789", (n % 10) + 1, (n % 10) + 1)

\* the number of places where p occurs in s
Occurrences(s, p) ==
  Cardinality({i \in 1..(Len(s) - Len(p) + 1) : SubSeq(s, i, i + Len(p) - 1) = p})

\* the keys of a defaultdict filled in the order of keys: each key once, in
\* the order of first appearance
RECURSIVE GroupKeys(_)
GroupKeys(keys) ==
  IF keys = <<>> THEN <<>>
  ELSE LET front == GroupKeys(SubSeq(keys, 1, Len(keys) - 1))
           last == keys[Len(keys)]
       IN  IF last \in SeqToSet(front) THEN front ELSE Append(front, last)

TELEGRAM_LIMIT == 4000
TRUNCATED_LENGTH == 3900
MAX_LISTED_PER_CATEGORY == 5
TITLE_LENGTH == 80
SUMMARY_LENGTH == 100

\* send without the cut of lines 704-705
sendUntruncated(message) == message

\* TelegramReporter.send: the text of the payload
send(message) ==
  IF Len(message) > TELEGRAM_LIMIT
  THEN SubSeq(message, 1, TRUNCATED_LENGTH) \o "\n\n_(truncated)_"
  ELSE message

category_emojis(category) ==
  CASE category = "tax" -> EmojiTax
    [] category = "labor" -> EmojiLabor
    [] category = "pension" -> EmojiPension
    [] category = "social_security" -> EmojiShield
    [] category = "compliance" -> EmojiClipboard
    [] OTHER -> EmojiPage

\* the lines of one document in a country report
DocEntry(doc) ==
  LET safe_title ==
        Replace(Replace(Replace(Replace(Take(doc.title, TITLE_LENGTH), "*", ""),
                                "_", ""), "[", "("), "]", ")")
      summary == IF doc.ai_summary = None THEN "" ELSE doc.ai_summary
      safe_summary == Replace(Replace(Take(summary, SUMMARY_LENGTH), "*", ""), "_", "")
  IN  "\n" \o Bullet \o " *" \o safe_title \o "*\n"
        \o (IF doc.doc_id # None /\ doc.doc_id # ""
            THEN "  " \o EmojiMemo \o " " \o doc.doc_id \o "\n" ELSE "")
        \o (IF safe_summary # "" THEN "  " \o EmojiBulb \o " " \o safe_summary \o "\n" ELSE "")
        \o (IF doc.date_published # None /\ doc.date_published # ""
            THEN "  " \o EmojiCalendar \o " " \o doc.date_published \o "\n" ELSE "")
        \o "  [" \o EmojiLink \o " Open](" \o doc.url \o ")\n"

RECURSIVE DocEntries(_)
DocEntries(docs) ==
  IF docs = <<>> THEN "" ELSE DocEntry(Head(docs)) \o DocEntries(Tail(docs))

CategorySection(category, docs) ==
  LET cat_docs == SelectSeq(docs, LAMBDA d : d.category = category)
  IN  category_emojis(category) \o " *" \o Title(Replace(category, "_", " ")) \o "*\n"
        \o DocEntries(Take(cat_docs, MAX_LISTED_PER_CATEGORY))
        \o "\n"

RECURSIVE CategorySections(_, _)
CategorySections(categories, docs) ==
  IF categories = <<>> THEN ""
  ELSE CategorySection(Head(categories), docs) \o CategorySections(Tail(categories), docs)

\* the message send_country_report builds for a non-empty docs
CountryMessage(country, docs) ==
  EmojiSiren \o " *" \o Upper(country) \o " - REGULATORY UPDATES*\n"
    \o "_" \o Str(Len(docs)) \o " new document(s)_\n\n"
    \o CategorySections(GroupKeys([i \in DOMAIN docs |-> docs[i].category]), docs)

\* what is handed to the transport: the text, and for each URL of docs the
\* number of links to it that the text holds
\* what send returns for the response to its POST, and whether it raises:
\* the status is compared with 200 and every exception is caught
sendRaisesOnError(response) ==
  [raised |-> response.raised, returned |-> ~response.raised /\ response.status = 200]

sendReturns(response) ==
  [raised |-> FALSE, returned |-> ~response.raised /\ response.status = 200]

\* the responses of the Telegram endpoint to a POST
TelegramOk == [raised |-> FALSE, status |-> 200]

TelegramResponses ==
  {TelegramOk, [raised |-> FALSE, status |-> 400], [raised |-> TRUE, status |-> 0]}

Post(text, parse_mode) == [text |-> text, parse_mode |-> parse_mode]

\* TelegramReporter.send(message) of audit.py with its POST answered: the
\* payloads posted and the value returned
sendCall(message, responses) ==
  [posts |-> <<Post(send(message), "Markdown")>>,
   returned |-> sendReturns(responses[1]).returned]

\* TelegramReporter.send_message(text) of payroll_news_monitor.py: the
\* same cut, and one more POST without parse_mode when the first is not
\* answered 200
MONITOR_LIMIT == 4000
MONITOR_TRUNCATED_LENGTH == 3900

send_message(text, responses) ==
  LET cut == IF Len(text) > MONITOR_LIMIT
             THEN SubSeq(text, 1, MONITOR_TRUNCATED_LENGTH) \o "\n\n_(truncated)_"
             ELSE text
  IN  IF responses[1].raised
      THEN [posts |-> <<Post(cut, "Markdown")>>, returned |-> FALSE]
      ELSE IF responses[1].status # 200
      THEN [posts |-> <<Post(cut, "Markdown"), Post(cut, None)>>,
            returned |-> ~responses[2].raised /\ responses[2].status = 200]
      ELSE [posts |-> <<Post(cut, "Markdown")>>, returned |-> TRUE]

\* send_telegram(message) of calude_audit.py: the message is cut at the
\* limit itself and the marker is added to it; nothing is returned
AUDIT_LIMIT == 4000

send_telegram(message, responses) ==
  [posts |-> <<Post(IF Len(message) > AUDIT_LIMIT
                    THEN SubSeq(message, 1, AUDIT_LIMIT) \o "\n\n_[truncated]_"
                    ELSE message,
                    "Markdown")>>,
   returned |-> None]

Posted(kind, country, message, docs) ==
  LET text == send(message)
  IN  [kind |-> kind, country |-> country, text |-> text,
       links |-> [u \in {docs[i].url : i \in DOMAIN docs} |->
                    Occurrences(text, "](" \o u \o ")")]]

send_country_report(country, docs) ==
  IF docs = <<>> THEN <<>>
  ELSE <<Posted("country", country, CountryMessage(country, docs), docs)>>

\* Scanner._report: one country report per country, in the order in which
\* the countries first appear in docs
RECURSIVE CountryReports(_, _)
CountryReports(countries, docs) ==
  IF countries = <<>> THEN <<>>
  ELSE send_country_report(Head(countries),
                           SelectSeq(docs, LAMBDA d : d.country = Head(countries)))
         \o CountryReports(Tail(countries), docs)

\* _report that ends each run of reports with a completion message of its own
_reportAndComplete(docs) ==
  CountryReports(GroupKeys([i \in DOMAIN docs |-> docs[i].country]), docs)
    \o <<Posted("summary", None, EmojiCheck \o " *AUDIT COMPLETE*", <<>>)>>

_report(docs) == CountryReports(GroupKeys([i \in DOMAIN docs |-> docs[i].country]), docs)

NowText == "2025-01-01 00:00 UTC"

send_summary(total, n_relevant, countries, duration) ==
  Posted("summary", None,
         EmojiCheck \o " *AUDIT COMPLETE*\n\n" \o EmojiChart \o " *Results:*\n"
           \o Bullet \o " Documents analyzed: *" \o Str(total) \o "*\n"
           \o Bullet \o " Relevant updates: *" \o Str(n_relevant) \o "*\n"
           \o Bullet \o " Countries: *" \o Str(countries) \o "*\n"
           \o Bullet \o " Duration: *" \o Str(duration) \o "s*\n\n"
           \o EmojiCalendar \o " " \o NowText,
         <<>>)

NoNewUpdates ==
  Posted("none", None, EmojiCheck \o " *AUDIT COMPLETE*\n\nNo new updates found.", <<>>)

(***************************************************************************)
(* The state before anything has run: the tables _init_db creates are      *)
(* empty and no scan has started.                                          *)
(***************************************************************************)
NotFetched == [done |-> FALSE, ok |-> FALSE, docs |-> <<>>]
NotStarted == [exited |-> FALSE, status |-> 0]
NoHistory ==
  [reported |-> {}, classified |-> {}, prev |-> "idle", harvest |-> <<>>, known |-> {},
   logged |-> 0]

StoreInit == documents = {} /\ scan_log = <<>>

ScannerIdle ==
  /\ pc = "idle"
  /\ fetched = [r \in Repos |-> NotFetched]
  /\ all_docs = <<>>
  /\ new_docs = <<>>
  /\ relevant = <<>>
  /\ cursor = 0
  /\ sent = <<>>
  /\ scans = 0
  /\ process = NotStarted

NoCall == [function |-> "none"]

RateIdle ==
  /\ now = 0
  /\ rate_limiter = <<>>
  /\ tasks = <<>>
  /\ requests = <<>>

MonitorIdle ==
  /\ sent_articles = {}
  /\ news_log = <<>>
  /\ monitor = [pc |-> "none"]
  /\ submitted = <<>>
  /\ posted = <<>>

AuditIdle ==
  /\ notifications = {}
  /\ audit = [pc |-> "none"]
  /\ crashes = 0

OthersIdle == RateIdle /\ MonitorIdle /\ AuditIdle

CallsIdle == acall = NoCall /\ scall = NoCall /\ OthersIdle

ObserverInit ==
  /\ classified = <<>>
  /\ persisted = <<>>
  /\ attempts = <<>>
  /\ delivered = <<>>
  /\ hist = NoHistory
  /\ saves = <<>>

(***************************************************************************)
(* Calls of Filters.passes_filter.  The texts are up to MaxTokens phrases  *)
(* of Vocab joined by single spaces.                                       *)
(***************************************************************************)
MaxTokens == 2

Vocab ==
  {"Home", "  Contact  US ", "Notice of Circular No. 12/2024 dated 15.03.2024",
   "withholding tax", "SO 1234 issued", "on pension contribution and salary"}

FilterUrls ==
  {"https://x.gov/a", "https://x.gov/circular/c12.pdf",
   "https://x.gov/about/team", "https://x.gov/about/c.PDF"}

\* min_score: the default of passes_filter (0.25) and two other thresholds
MinScores == {DEFAULT_MIN_SCORE, 0, 100}

\* the regulatory keywords a text is extended with
ExtensionKeywords == {"gst", "salary", "withholding tax", "tax rate"}

RECURSIVE JoinTokens(_)
JoinTokens(ts) ==
  IF Len(ts) = 1 THEN ts[1] ELSE ts[1] \o " " \o JoinTokens(Tail(ts))

Texts ==
  {JoinTokens(ts) : ts \in UNION {[1..n -> Vocab] : n \in 1..MaxTokens}}

NoResult == [pass |-> FALSE, score |-> -1, min_score |-> -1]
NoFactors == [junk |-> FALSE, reg_count |-> -1, other |-> <<>>]
NoPrev == [res |-> NoResult, factors |-> NoFactors]

\* one call: what passes_filter returned, and the min_score it was given
Call(text, url, min_score) ==
  LET r == passes_filter(text, url, min_score)
  IN  [pass |-> r.pass, score |-> r.score, min_score |-> min_score]

\* what a call's score was made of: the junk gate, the number of regulatory
\* keywords, and every other scoring factor
Factors(text, url) ==
  LET f == ScoreFactors(text, url)
  IN  [junk |-> is_navigation_junk(text, url),
       reg_count |-> reg_keyword_count(text),
       other |-> <<f.file_ext, f.doc_id, f.date, f.year, f.doc_kw, f.url_ind,
                   f.length>>]

FilterIdle ==
  /\ ftext = ""
  /\ furl = ""
  /\ fres = NoResult
  /\ fprev = NoPrev
  /\ ffactors = NoFactors

FilterInit ==
  /\ ftext \in Texts
  /\ furl \in FilterUrls
  /\ fres = NoResult
  /\ fprev = NoPrev
  /\ ffactors = NoFactors
  /\ CallsIdle
  /\ StoreInit
  /\ ScannerIdle
  /\ ObserverInit

\* passes_filter(text, url, min_score)
Filter(min_score) ==
  /\ fres = NoResult
  /\ fres' = Call(ftext, furl, min_score)
  /\ UNCHANGED <<ftext, furl, fprev, ffactors, callVars, storeVars, scanVars,
                 observerVars>>

\* passes_filter on the text, then on the text extended by a phrase that
\* makes it match one more entry of REGULATORY_KEYWORDS
Extend(kw) ==
  /\ fres = NoResult
  /\ LET text2 == ftext \o " " \o kw
         f1 == Factors(ftext, furl)
         f2 == Factors(text2, furl)
     IN  /\ f2.reg_count = f1.reg_count + 1
         /\ fprev' = [res |-> Call(ftext, furl, DEFAULT_MIN_SCORE), factors |-> f1]
         /\ ftext' = text2
         /\ fres' = Call(text2, furl, DEFAULT_MIN_SCORE)
         /\ ffactors' = f2
  /\ UNCHANGED <<furl, callVars, storeVars, scanVars, observerVars>>

FilterNext ==
  \/ \E m \in MinScores : Filter(m)
  \/ \E kw \in ExtensionKeywords : Extend(kw)

SpecFilter == FilterInit /\ [][FilterNext]_vars

(***************************************************************************)
(* class ContentExtractor.  A response to the GET of a document is an      *)
(* exception with its message, or a status with the content-length header  *)
(* (absent, or a number of bytes) and the body: the text of each page of   *)
(* a PDF, or the text of a web page without its scripts and menus.         *)
(***************************************************************************)
MAX_PDF_PAGES == 3
MAX_PDF_SIZE_MB == 10
MAX_CONTENT_LENGTH == 4000
MIN_PDF_TEXT == 50
ERROR_LENGTH == 50

\* str.strip()
Strip(s) ==
  LET idx == {i \in 1..Len(s) : ~IsSpaceAt(s, i)}
  IN  IF idx = {} THEN ""
      ELSE SubSeq(s, CHOOSE i \in idx : \A j \in idx : i <= j, LastNonSpace(s))

RECURSIVE PagesText(_)
PagesText(pages) ==
  IF pages = <<>> THEN ""
  ELSE (IF Head(pages) # "" THEN Head(pages) \o "\n" ELSE "") \o PagesText(Tail(pages))

extract_pdf(pdf_support, response) ==
  IF ~pdf_support THEN <<"[PDF extraction not available]", FALSE>>
  ELSE IF response.raised
  THEN <<"[PDF Error: " \o Take(response.error, ERROR_LENGTH) \o "]", FALSE>>
  ELSE IF response.status # 200 THEN <<"[HTTP " \o Str(response.status) \o "]", FALSE>>
  ELSE IF /\ response.content_length # <<>>
          /\ response.content_length[1] > MAX_PDF_SIZE_MB * 1024 * 1024
  THEN <<"[PDF too large]", FALSE>>
  ELSE LET text == PagesText(Take(response.pages, MAX_PDF_PAGES))
       IN  IF Len(Strip(text)) < MIN_PDF_TEXT THEN <<"[Scanned PDF - no text]", FALSE>>
           ELSE <<Take(text, MAX_CONTENT_LENGTH), TRUE>>

extract_webpage(response) ==
  IF response.raised
  THEN <<"[Page Error: " \o Take(response.error, ERROR_LENGTH) \o "]", FALSE>>
  ELSE IF response.status # 200 THEN <<"[HTTP " \o Str(response.status) \o "]", FALSE>>
  ELSE <<Take(JoinSplit(response.text), MAX_CONTENT_LENGTH), TRUE>>

NoticeText ==
  "The Commissioner General notifies employers of the revised PAYE bands effective 1 July 2025."

GetRaised(error) ==
  [raised |-> TRUE, error |-> error, status |-> 0, content_length |-> <<>>,
   pages |-> <<>>, text |-> ""]
GetStatus(status) ==
  [raised |-> FALSE, error |-> "", status |-> status, content_length |-> <<>>,
   pages |-> <<>>, text |-> ""]
GetPdf(content_length, pages) ==
  [raised |-> FALSE, error |-> "", status |-> 200, content_length |-> content_length,
   pages |-> pages, text |-> ""]
GetPage(text) ==
  [raised |-> FALSE, error |-> "", status |-> 200, content_length |-> <<>>,
   pages |-> <<>>, text |-> text]

PdfResponses ==
  { GetRaised("EOF marker not found"), GetStatus(404),
    GetPdf(<<MAX_PDF_SIZE_MB * 1024 * 1024 + 1>>, <<NoticeText>>),
    GetPdf(<<>>, <<"", "  ">>),
    GetPdf(<<52000>>, <<"KENYA REVENUE AUTHORITY", NoticeText, "", "Page 4">>) }

PageResponses ==
  { GetRaised("Cannot connect to host www.kra.go.ke:443 ssl:False [Connection reset by peer]"),
    GetStatus(503), GetPage(""),
    GetPage("[Draft] Finance Bill 2025: PAYE bands revised with effect from 1 July 2025"),
    GetPage("  Public  Notice \n" \o NoticeText) }

\* the content task of _analyze for a document
FetchContent(doc, pdf_support, response) ==
  IF doc.is_pdf THEN extract_pdf(pdf_support, response) ELSE extract_webpage(response)

\* the document with its content_snippet field
WithContent(doc, content) ==
  [f \in DOMAIN doc \cup {"content_snippet"} |->
     IF f = "content_snippet" THEN content ELSE doc[f]]

(***************************************************************************)
(* class GeminiAnalyzer.  A response of the endpoint to one request is an  *)
(* exception with its message, or a status and the texts of the           *)
(* candidates of the JSON body (reading the first of none raises inside    *)
(* the try).                                                               *)
(***************************************************************************)
GEMINI_RETRY_ATTEMPTS == 3
PROMPT_CONTENT_LENGTH == 2000

has_content(doc) ==
  /\ doc.content_snippet # None
  /\ doc.content_snippet # ""
  /\ ~StartsWith(doc.content_snippet, "[")

ResponseFormat ==
  "RESPOND EXACTLY AS:\nRELEVANT: [YES/NO]\n"
    \o "CATEGORY: [TAX/LABOR/PENSION/SOCIAL_SECURITY/COMPLIANCE/OTHER]\n"

ContentPrompt(doc) ==
  "You are a Payroll Compliance Auditor for " \o doc.country \o ".\n\n"
    \o "DOCUMENT:\nTitle: \"" \o doc.title \o "\"\nAgency: " \o doc.agency \o "\n"
    \o "Content:\n---\n" \o Take(doc.content_snippet, PROMPT_CONTENT_LENGTH) \o "\n---\n\n"
    \o "Is this a relevant regulatory update for Payroll, Tax, or Labor Law?\n\n"
    \o "RELEVANT: Tax rates, social security, pension, wages, compliance deadlines\n"
    \o "NOT RELEVANT: News, tenders, jobs, events, organizational updates\n\n"
    \o ResponseFormat \o "SUMMARY: [One sentence summary]"

TitlePrompt(doc) ==
  "You are a Payroll Compliance Auditor for " \o doc.country \o ".\n\n"
    \o "TITLE: \"" \o doc.title \o "\"\nAgency: " \o doc.agency \o "\n"
    \o "(Content unavailable)\n\n"
    \o "Based on title only, is this likely a relevant regulatory update?\n\n"
    \o ResponseFormat \o "SUMMARY: [One sentence about what this likely covers]"

Prompt(doc) == IF has_content(doc) THEN ContentPrompt(doc) ELSE TitlePrompt(doc)

\* str.split('\n')
RECURSIVE SplitLines(_)
SplitLines(s) ==
  LET i == IndexOf(s, "\n")
  IN  IF i = 0 THEN <<s>>
      ELSE <<SubSeq(s, 1, i - 1)>> \o SplitLines(SubSeq(s, i + 1, Len(s)))

\* line.split(':', 1)[1].strip(), for a line that holds a colon
AfterColon(line) == Strip(SubSeq(line, IndexOf(line, ":") + 1, Len(line)))

category_map(cat_str) ==
  CASE cat_str = "TAX" -> "tax"
    [] cat_str \in {"LABOR", "LABOUR"} -> "labor"
    [] cat_str = "PENSION" -> "pension"
    [] cat_str = "SOCIAL_SECURITY" -> "social_security"
    [] cat_str = "COMPLIANCE" -> "compliance"
    [] OTHER -> "other"

\* the loop of _parse over the lines, from the values found so far
RECURSIVE ParseLines(_, _)
ParseLines(lines, found) ==
  IF lines = <<>> THEN found
  ELSE LET line == Strip(Head(lines))
           upper == Upper(line)
       IN  ParseLines(Tail(lines),
             IF StartsWith(upper, "RELEVANT:")
             THEN [found EXCEPT !.is_relevant = Contains(upper, "YES")]
             ELSE IF StartsWith(upper, "CATEGORY:")
             THEN [found EXCEPT !.category = category_map(Upper(AfterColon(line)))]
             ELSE IF StartsWith(upper, "SUMMARY:")
             THEN [found EXCEPT !.summary = AfterColon(line)]
             ELSE found)

_parse(answer) ==
  ParseLines(SplitLines(Strip(answer)),
             [is_relevant |-> FALSE, summary |-> "Analysis unavailable", category |-> "other"])

Failure(summary) == [is_relevant |-> FALSE, summary |-> summary, category |-> "other"]

\* the retry loop of analyze from round attempt (counted from 0) with a cap
\* of rounds: what it returns or raises, and the requests issued
\* the texts the endpoint answers with, and what _parse makes of each
AnswerYes == "RELEVANT: YES\nCATEGORY: TAX\nSUMMARY: New PAYE rates apply from July"
AnswerNo == "RELEVANT: NO\nCATEGORY: OTHER\nSUMMARY: General news item"
AnswerLoose == "  relevant: yes, likely \n category:  labour \nNote: title only\n"

Answers == {AnswerYes, AnswerNo, AnswerLoose, ""}

Parsed == [text \in Answers |-> _parse(Strip(text))]

RECURSIVE Attempts(_, _, _)
Attempts(attempt, cap, responses) ==
  IF attempt >= cap
  THEN [raised |-> FALSE, result |-> Failure("Max retries"), requests |-> attempt]
  ELSE LET r == responses[attempt + 1]
       IN  IF r.raised \/ (r.status = 200 /\ r.candidates = <<>>)
           THEN IF attempt < cap - 1 THEN Attempts(attempt + 1, cap, responses)
                ELSE [raised |-> FALSE,
                      result |-> Failure("Error: " \o Take(r.error, ERROR_LENGTH)),
                      requests |-> attempt + 1]
           ELSE IF r.status = 200
           THEN [raised |-> FALSE, result |-> Parsed[r.candidates[1]],
                 requests |-> attempt + 1]
           ELSE IF r.status = 429 THEN Attempts(attempt + 1, cap, responses)
           ELSE [raised |-> FALSE,
                 result |-> Failure("API Error: " \o Str(r.status)),
                 requests |-> attempt + 1]

Answered(text) == [raised |-> FALSE, error |-> "", status |-> 200, candidates |-> <<text>>]
NoCandidates ==
  [raised |-> FALSE, error |-> "list index out of range", status |-> 200, candidates |-> <<>>]
Status(status) == [raised |-> FALSE, error |-> "", status |-> status, candidates |-> <<>>]
PostRaised(error) == [raised |-> TRUE, error |-> error, status |-> 0, candidates |-> <<>>]

\* analyze with one round more than GEMINI_RETRY_ATTEMPTS
analyzeOneMoreRound(doc, responses) ==
  [prompt |-> Prompt(doc)] @@ Attempts(0, GEMINI_RETRY_ATTEMPTS + 1, responses)

\* analyze that raises when the last round has failed
analyzeRaisesWhenExhausted(doc, responses) ==
  LET out == Attempts(0, GEMINI_RETRY_ATTEMPTS, responses)
  IN  [prompt |-> Prompt(doc)]
        @@ [out EXCEPT !.raised = \/ out.result.summary = "Max retries"
                                  \/ StartsWith(out.result.summary, "Error: ")]

\* analyze that always builds the prompt with the content
analyzeContentPromptOnly(doc, responses) ==
  [prompt |-> ContentPrompt(WithContent(doc, IF doc.content_snippet = None
                                              THEN "" ELSE doc.content_snippet))]
    @@ Attempts(0, GEMINI_RETRY_ATTEMPTS, responses)

\* GeminiAnalyzer.analyze(doc, session), the session answering with responses
analyze(doc, responses) ==
  [prompt |-> Prompt(doc)] @@ Attempts(0, GEMINI_RETRY_ATTEMPTS, responses)

(***************************************************************************)
(* Scanner.run: the scan pipeline.                                         *)
(***************************************************************************)
MaxScans == 2

\* the seconds a run takes, as send_summary and save_scan_log are given them
Durations == {47}

\* the responses of the endpoint to the requests of one call of analyze, as
\* far as it asks
MaxResponses == 4

Always(response) == [i \in 1..MaxResponses |-> response]

\* in a scan the endpoint answers yes, answers no, or is rate limited
ScanRuns == {Always(Answered(AnswerYes)), Always(Answered(AnswerNo)), Always(Status(429))}

\* in a scan the GET of a document's content is answered 404
ScanGets == {<<TRUE, GetStatus(404)>>}

\* what GeminiAnalyzer.analyze returns for one document: a verdict parsed
\* from the answer, or the failure after the last attempt
Verdicts == {Attempts(0, GEMINI_RETRY_ATTEMPTS, run).result : run \in ScanRuns}

\* the assignments of _analyze to the document
Analysed(doc, verdict) ==
  [doc EXCEPT !.is_relevant = verdict.is_relevant,
              !.ai_summary = verdict.summary,
              !.category = verdict.category]

Urls(docs) == [i \in DOMAIN docs |-> docs[i].url]

\* the URLs that the country reports among msgs link to
ReportedUrls(msgs) ==
  UNION { {u \in DOMAIN msgs[i].links : msgs[i].links[u] > 0} :
            i \in {j \in DOMAIN msgs : msgs[j].kind = "country"} }

\* what the observer records of one call of save_document
Saved(table, doc, res) ==
  (doc.url :> [doc |-> doc, raised |-> res.integrity_error,
               replaced |-> \E row \in table : row.url = doc.url /\ row # Row(doc)])
    @@ saves

\* main: the status the process exits with when Scanner.run has returned or
\* has raised an Exception
mainIgnoresError(outcome) == [exited |-> TRUE, status |-> 0]
main(outcome) ==
  [exited |-> TRUE, status |-> IF outcome = "raised" THEN 1 ELSE 0]

Init ==
  /\ FilterIdle
  /\ CallsIdle
  /\ StoreInit
  /\ ScannerIdle
  /\ ObserverInit

\* Scanner.run is started: on a fresh store, or after an earlier run has
\* returned or died
StartScan ==
  /\ pc \in {"idle", "done", "aborted"}
  /\ scans < MaxScans
  /\ scans' = scans + 1
  /\ pc' = "scan_repos"
  /\ fetched' = [r \in Repos |-> NotFetched]
  /\ all_docs' = <<>>
  /\ new_docs' = <<>>
  /\ relevant' = <<>>
  /\ cursor' = 0
  /\ sent' = <<>>
  /\ process' = NotStarted
  /\ classified' = <<>>
  /\ persisted' = <<>>
  /\ attempts' = <<>>
  /\ delivered' = <<>>
  /\ hist' = [reported |-> hist.reported \cup ReportedUrls(sent),
              classified |-> hist.classified
                               \cup (IF pc = "done" THEN SeqToSet(classified) ELSE {}),
              prev |-> pc,
              harvest |-> Urls(all_docs),
              known |-> {row.url : row \in documents},
              logged |-> Len(scan_log)]
  /\ UNCHANGED <<filterVars, callVars, storeVars, saves>>

\* the task of _scan_repos for source r finishes
ScanRepo(r, response) ==
  /\ pc = "scan_repos"
  /\ ~fetched[r].done
  /\ fetched' = [fetched EXCEPT ![r] =
                   [done |-> TRUE,
                    ok |-> ~response.raised /\ response.status = 200,
                    docs |-> Harvest[r][response]]]
  /\ UNCHANGED <<filterVars, callVars, storeVars, pc, all_docs, new_docs, relevant, cursor,
                 sent, scans, process, observerVars>>

\* run, from the return of _scan_repos to the call of _analyze or to the
\* return when nothing is new
\* what the observer records of one call of send
Delivery(response, out) == [response |-> response, returned |-> out.returned]

\* the messages handed to send one after the other, the POST of each
\* answered by responses: what was handed, what the observer recorded, and
\* whether a call raised (the messages after it are not handed)
RECURSIVE SendAll(_, _)
SendAll(messages, responses) ==
  IF messages = <<>> THEN [sent |-> <<>>, delivered |-> <<>>, raised |-> FALSE]
  ELSE LET out == sendReturns(Head(responses))
           rest == IF out.raised
                   THEN [sent |-> <<>>, delivered |-> <<>>, raised |-> TRUE]
                   ELSE SendAll(Tail(messages), Tail(responses))
       IN  [sent |-> <<Head(messages)>> \o rest.sent,
            delivered |-> <<Delivery(Head(responses), out)>> \o rest.delivered,
            raised |-> rest.raised]

\* lines 804-816, the POST of the message of line 815 answered with one of
\* deliveries
GatherWith(deliveries) ==
  /\ pc = "scan_repos"
  /\ \A r \in Repos : fetched[r].done
  /\ LET docs == _scan_repos(fetched)
         new_urls == bulk_check_urls(documents, Urls(docs))
         new == SelectSeq(docs, LAMBDA d : d.url \in new_urls)
     IN  /\ all_docs' = docs
         /\ new_docs' = new
         /\ IF new = <<>>
            THEN \E response \in deliveries :
                   LET out == SendAll(<<NoNewUpdates>>, <<response>>)
                   IN  /\ sent' = sent \o out.sent
                       /\ delivered' = delivered \o out.delivered
                       /\ pc' = IF out.raised THEN "aborted" ELSE "done"
                       /\ process' = main(IF out.raised THEN "raised" ELSE "returned")
            ELSE /\ sent' = sent
                 /\ delivered' = delivered
                 /\ pc' = "analyze"
                 /\ process' = process
  /\ UNCHANGED <<filterVars, callVars, storeVars, fetched, relevant, cursor, scans,
                 classified, persisted, attempts, hist, saves>>

Gather == GatherWith({TelegramOk})

\* what the observer records of one call of analyze
Attempt(out, responses) ==
  [raised |-> out.raised, result |-> out.result, requests |-> out.requests,
   responses |-> SubSeq(responses, 1, out.requests)]

\* one round of the loop of _analyze: a batch of GEMINI_BATCH_SIZE documents,
\* the endpoint answering each with one of runs and the GET of each content
\* being answered with one of gets.  A document whose analysis raised is
\* left as it was.
AnalyzeBatchWith(runs, gets) ==
  /\ pc = "analyze"
  /\ LET size == Min(GEMINI_BATCH_SIZE, Len(new_docs) - cursor)
     IN  \E responses \in [1..size -> runs] : \E got \in [1..size -> gets] :
           LET outs == [k \in 1..size |->
                          LET doc == new_docs[cursor + k]
                              content == FetchContent(doc, got[k][1], got[k][2])
                          IN  analyze(WithContent(doc, content[1]), responses[k])]
               analysed == [i \in DOMAIN new_docs |->
                              IF i > cursor /\ i <= cursor + size /\ ~outs[i - cursor].raised
                              THEN Analysed(new_docs[i], outs[i - cursor].result)
                              ELSE new_docs[i]]
               batch == SubSeq(analysed, cursor + 1, cursor + size)
           IN  /\ new_docs' = analysed
               /\ relevant' = relevant \o SelectSeq(batch, LAMBDA d : d.is_relevant)
               /\ classified' = classified \o Urls(batch)
               /\ attempts' = attempts \o [k \in 1..size |-> Attempt(outs[k], responses[k])]
               /\ IF cursor + size = Len(new_docs)
                  THEN pc' = "save" /\ cursor' = 0
                  ELSE pc' = "analyze" /\ cursor' = cursor + size
  /\ UNCHANGED <<filterVars, callVars, storeVars, fetched, all_docs, sent, scans, process,
                 persisted, delivered, hist, saves>>

AnalyzeBatch == AnalyzeBatchWith(ScanRuns, ScanGets)

\* one round of the loop "for doc in new_docs: self.db.save_document(doc)"
SaveDocument ==
  /\ pc = "save"
  /\ cursor < Len(new_docs)
  /\ LET doc == new_docs[cursor + 1]
         res == save_document(documents, doc)
     IN  /\ saves' = Saved(documents, doc, res)
         /\ persisted' = Append(persisted, doc.url)
         /\ IF res.integrity_error
            THEN /\ pc' = "aborted"
                 /\ process' = main("raised")
                 /\ UNCHANGED <<documents, cursor>>
            ELSE /\ documents' = res.rows
                 /\ process' = process
                 /\ IF cursor + 1 = Len(new_docs)
                    THEN pc' = "report" /\ cursor' = 0
                    ELSE pc' = "save" /\ cursor' = cursor + 1
  /\ UNCHANGED <<filterVars, callVars, scan_log, fetched, all_docs, new_docs, relevant,
                 sent, scans, classified, attempts, delivered, hist>>

\* the store fails (sqlite3.OperationalError) and the run dies
SaveFail ==
  /\ pc = "save"
  /\ cursor < Len(new_docs)
  /\ pc' = "aborted"
  /\ process' = main("raised")
  /\ UNCHANGED <<filterVars, callVars, storeVars, fetched, all_docs, new_docs, relevant,
                 cursor, sent, scans, observerVars>>

\* "if relevant: await self._report(relevant)", the POST of each report
\* answered with one of deliveries
ReportWith(deliveries) ==
  /\ pc = "report"
  /\ \E reports \in {IF relevant # <<>> THEN _report(relevant) ELSE <<>>} :
       \E responses \in [DOMAIN reports -> deliveries] :
         \E out \in {SendAll(reports, responses)} :
           /\ sent' = sent \o out.sent
           /\ delivered' = delivered \o out.delivered
           /\ pc' = IF out.raised THEN "aborted" ELSE "summary"
           /\ process' = IF out.raised THEN main("raised") ELSE process
  /\ UNCHANGED <<filterVars, callVars, storeVars, fetched, all_docs, new_docs, relevant,
                 cursor, scans, classified, persisted, attempts, hist, saves>>

Report == ReportWith({TelegramOk})

\* the summary message, its POST answered with one of deliveries, and the
\* row of scan_log
SummaryWith(duration, deliveries) ==
  /\ pc = "summary"
  /\ \E response \in deliveries :
       LET countries == Cardinality({relevant[i].country : i \in DOMAIN relevant})
           summary == send_summary(Len(new_docs), Len(relevant), countries, duration)
       IN  \E out \in {SendAll(<<summary>>, <<response>>)} :
             /\ sent' = sent \o out.sent
             /\ delivered' = delivered \o out.delivered
             /\ scan_log' = IF out.raised THEN scan_log
                            ELSE Append(scan_log, [docs_found |-> Len(new_docs),
                                                   docs_relevant |-> Len(relevant),
                                                   duration |-> duration])
             /\ pc' = IF out.raised THEN "aborted" ELSE "done"
             /\ process' = main(IF out.raised THEN "raised" ELSE "returned")
  /\ UNCHANGED <<filterVars, callVars, documents, fetched, all_docs, new_docs, relevant,
                 cursor, scans, classified, persisted, attempts, hist, saves>>

Summary(duration) == SummaryWith(duration, {TelegramOk})

Next ==
  \/ StartScan
  \/ \E r \in Repos : \E response \in Responses(r) : ScanRepo(r, response)
  \/ Gather
  \/ AnalyzeBatch
  \/ SaveDocument
  \/ SaveFail
  \/ Report
  \/ \E duration \in Durations : Summary(duration)

Spec == Init /\ [][Next]_vars

(***************************************************************************)
(* Database.save_document called with any documents in any order.          *)
(***************************************************************************)
HarvestedDocs ==
  UNION { UNION { SeqToSet(Harvest[r][response]) : response \in Responses(r) } :
            r \in Repos }

DbDocuments == HarvestedDocs \cup {Analysed(d, v) : d \in HarvestedDocs, v \in Verdicts}

SaveCall(doc) ==
  /\ LET res == save_document(documents, doc)
     IN  /\ saves' = Saved(documents, doc, res)
         /\ documents' = IF res.integrity_error THEN documents ELSE res.rows
  /\ UNCHANGED <<filterVars, callVars, scan_log, scanVars, classified, persisted, attempts,
                 delivered, hist>>

DbNext == \E doc \in DbDocuments : SaveCall(doc)

SpecDb == Init /\ [][DbNext]_vars

(***************************************************************************)
(* The reports of a run whose relevant documents are any of a list of      *)
(* circulars of the Income Tax source (category tax) and a notice of the   *)
(* KRA source (category labor).                                            *)
(***************************************************************************)
MaxReportDocs == 7

ReportRepo(n) == IF n % 7 = 0 THEN REPOSITORIES[2] ELSE REPOSITORIES[1]

ReportDoc(n) ==
  LET repo == ReportRepo(n)
      url == urljoin(repo.url, "/documents/" \o Str(n) \o "-2024.pdf")
      title == "Circular No. " \o Str(n) \o "/2024 dated 15.03.2024"
  IN  Analysed(Document(url, title, repo, passes_filter(title, url, DEFAULT_MIN_SCORE).score),
               [is_relevant |-> TRUE, summary |-> "Rates revised",
                category |-> IF n % 7 = 0 THEN "labor" ELSE "tax"])

\* the documents, computed once
ReportPool == [n \in 1..MaxReportDocs |-> ReportDoc(n)]

RECURSIVE ReportDocs(_, _)
ReportDocs(chosen, n) ==
  IF n > MaxReportDocs THEN <<>>
  ELSE (IF n \in chosen THEN <<ReportPool[n]>> ELSE <<>>) \o ReportDocs(chosen, n + 1)

\* run has analysed and saved the documents and is about to report
ReportInit ==
  /\ FilterIdle
  /\ CallsIdle
  /\ scan_log = <<>>
  /\ \E chosen \in SUBSET (1..MaxReportDocs) :
       LET docs == ReportDocs(chosen, 1)
           found(r) == SelectSeq(docs, LAMBDA d : d.country = REPOSITORIES[r].country)
       IN  /\ chosen # {}
           /\ fetched = [r \in Repos |-> [done |-> TRUE, ok |-> TRUE, docs |-> found(r)]]
           /\ all_docs = docs
           /\ new_docs = docs
           /\ relevant = docs
           /\ documents = {Row(docs[i]) : i \in DOMAIN docs}
           /\ classified = Urls(docs)
           /\ persisted = Urls(docs)
           /\ attempts = [i \in DOMAIN docs |->
                            [raised |-> FALSE, requests |-> 1,
                             result |-> [is_relevant |-> TRUE, summary |-> docs[i].ai_summary,
                                         category |-> docs[i].category],
                             responses |-> <<Answered("RELEVANT: YES\nCATEGORY: "
                                               \o Upper(docs[i].category)
                                               \o "\nSUMMARY: " \o docs[i].ai_summary)>>]]
           /\ saves = [u \in SeqToSet(Urls(docs)) |->
                         [doc |-> CHOOSE d \in SeqToSet(docs) : d.url = u,
                          raised |-> FALSE, replaced |-> FALSE]]
  /\ pc = "report"
  /\ cursor = 0
  /\ sent = <<>>
  /\ delivered = <<>>
  /\ scans = 1
  /\ process = NotStarted
  /\ hist = NoHistory

ReportNext ==
  \/ ReportWith(TelegramResponses)
  \/ \E duration \in Durations : SummaryWith(duration, TelegramResponses)

SpecReport == ReportInit /\ [][ReportNext]_vars

(***************************************************************************)
(* C1: a URL that a country report of one scan linked to is not linked to  *)
(* by any report of a later scan, and the documents table never holds two  *)
(* rows for it.                                                            *)
(***************************************************************************)
RowsOf(u) == {row \in documents : row.url = u}

C1_ReportedUrlNeverReportedAgain ==
  /\ ReportedUrls(sent) \cap hist.reported = {}
  /\ \A u \in ReportedUrls(sent) \cup hist.reported : Cardinality(RowsOf(u)) <= 1

\* the second scan harvested a URL that the first scan reported, next to a
\* new one, and reported only the new one
C1_Witness ==
  /\ scans = 2
  /\ pc = "done"
  /\ hist.reported \cap SeqToSet(Urls(all_docs)) # {}
  /\ ReportedUrls(sent) # {}
  /\ \A u \in hist.reported : Cardinality(RowsOf(u)) = 1

(***************************************************************************)
(* C2: a scan that follows a completed scan and harvests the same          *)
(* candidates calls save_document for nothing, submits nothing to the      *)
(* analyzer, sends no country report and sends the one message 'No new     *)
(* updates found'.                                                         *)
(***************************************************************************)
SameCandidatesAgain ==
  /\ hist.prev = "done"
  /\ pc # "scan_repos"
  /\ Urls(all_docs) = hist.harvest

C2_SecondScanIsSilent ==
  SameCandidatesAgain
    => /\ pc = "done"
       /\ persisted = <<>>
       /\ classified = <<>>
       /\ {row.url : row \in documents} = hist.known
       /\ sent = <<NoNewUpdates>>

\* the first scan reported documents; the second harvested them again
C2_Witness ==
  /\ SameCandidatesAgain
  /\ all_docs # <<>>
  /\ hist.reported # {}
  /\ sent = <<NoNewUpdates>>

(***************************************************************************)
(* C3: after any calls of save_document the table holds at most one row    *)
(* per URL, the row of a URL is the row of the last document saved under   *)
(* it, and no call raised a uniqueness error.                              *)
(***************************************************************************)
C3_OneRowPerUrlLastSaveWins ==
  /\ \A r1, r2 \in documents : r1.url = r2.url => r1 = r2
  /\ \A u \in DOMAIN saves :
       /\ ~saves[u].raised
       /\ RowsOf(u) = {Row(saves[u].doc)}

\* a URL was saved again with other attributes, next to a row of another URL
C3_Witness ==
  /\ \E u \in DOMAIN saves :
       /\ saves[u].replaced
       /\ saves[u].doc.is_relevant
       /\ RowsOf(u) = {Row(saves[u].doc)}
  /\ Cardinality(documents) >= 2

(***************************************************************************)
(* C4: within one scan no URL is submitted to the analyzer twice and no    *)
(* URL is linked to twice by the country reports.  (Scanner.run keeps      *)
(* every occurrence of a new URL in new_docs.)                             *)
(***************************************************************************)
LinksTo(u) ==
  {<<j, k>> \in (DOMAIN sent) \X (1..MAX_LISTED_PER_CATEGORY) :
     /\ sent[j].kind = "country"
     /\ u \in DOMAIN sent[j].links
     /\ k <= sent[j].links[u]}

C4_UrlClassifiedAndReportedOnce ==
  /\ \A i, j \in DOMAIN classified : classified[i] = classified[j] => i = j
  /\ \A u \in ReportedUrls(sent) : Cardinality(LinksTo(u)) <= 1

(***************************************************************************)
(* C5: once the save loop of a scan is through, every document that was    *)
(* submitted to the analyzer has its row in the documents table, whatever  *)
(* the verdict, and no scan submits a URL that an earlier completed scan   *)
(* submitted.                                                              *)
(***************************************************************************)
C5_ClassifiedIsPersisted ==
  /\ pc \in {"report", "summary", "done"}
       => \A i \in DOMAIN classified :
            \E j \in DOMAIN new_docs :
              /\ new_docs[j].url = classified[i]
              /\ RowsOf(classified[i]) = {Row(new_docs[j])}
  /\ SeqToSet(classified) \cap hist.classified = {}

\* the first scan stored a failed classification and a not relevant one;
\* the second scan harvested both again and classified neither
C5_Witness ==
  /\ scans = 2
  /\ pc = "done"
  /\ \E u, v \in hist.classified \cap SeqToSet(Urls(all_docs)) :
       /\ \E row \in RowsOf(u) : row.ai_summary = "Max retries"
       /\ \E row \in RowsOf(v) : row.ai_summary = "General news item"
       /\ u \notin SeqToSet(classified)
       /\ v \notin SeqToSet(classified)
  /\ \E row \in documents : row.is_relevant = 1

(***************************************************************************)
(* C6: after the report step every relevant document is linked to by       *)
(* exactly one country report of its country.  (send_country_report lists  *)
(* the first five documents of a category only.)                           *)
(***************************************************************************)
ReportsLinking(doc) ==
  {j \in DOMAIN sent :
     /\ sent[j].kind = "country"
     /\ sent[j].country = doc.country
     /\ doc.url \in DOMAIN sent[j].links
     /\ sent[j].links[doc.url] >= 1}

C6_RelevantDocInExactlyOneReport ==
  pc \in {"summary", "done"}
    => \A i \in DOMAIN relevant : Cardinality(ReportsLinking(relevant[i])) = 1

(***************************************************************************)
(* C10: in a scan in which a source failed (a status other than 200 or an  *)
(* exception), that source contributes no candidate and the run goes on:   *)
(* the candidates of the other sources are all in all_docs, each of them   *)
(* was known to the store or is classified and persisted, each relevant    *)
(* one is linked to by a report of its country, and a run dies only in the *)
(* save loop.                                                              *)
(***************************************************************************)
FailedSources == {r \in Repos : fetched[r].done /\ ~fetched[r].ok}

C10_FailedSourceIsIsolated ==
  /\ (pc = "done" /\ FailedSources # {})
       => /\ \A r \in FailedSources : \A i \in DOMAIN all_docs :
               all_docs[i].country # REPOSITORIES[r].country
          /\ \A r \in Repos \ FailedSources : \A d \in SeqToSet(fetched[r].docs) :
               /\ d.url \in SeqToSet(Urls(all_docs))
               /\ \/ d.url \in hist.known
                  \/ d.url \in SeqToSet(classified) /\ RowsOf(d.url) # {}
          /\ \A i \in DOMAIN relevant : ReportsLinking(relevant[i]) # {}
  /\ pc = "aborted" => (new_docs # <<>> /\ cursor < Len(new_docs))

\* the Income Tax source failed; the notice of the KRA source was judged
\* relevant, stored and reported
C10_Witness ==
  /\ pc = "done"
  /\ FailedSources = {1}
  /\ fetched[2].docs # <<>>
  /\ relevant # <<>>
  /\ \A i \in DOMAIN relevant : ReportsLinking(relevant[i]) # {}
  /\ \A i \in DOMAIN new_docs : RowsOf(new_docs[i].url) # {}
  /\ Len(sent) = 2

(***************************************************************************)
(* C7: a text that, lower-cased and with its whitespace collapsed, equals  *)
(* an entry of NAVIGATION_BLOCKLIST is rejected by passes_filter for every *)
(* URL, whatever score calculate_relevance_score gives it.                 *)
(***************************************************************************)
Normalized(text) == JoinSplit(Lower(text))

C7_BlocklistedTextRejected ==
  (fres # NoResult /\ Normalized(ftext) \in NAVIGATION_BLOCKLIST)
    => (fres.pass = FALSE /\ fres.score = 0)

\* a blocklisted phrase of eight or more characters whose score alone would
\* have passed the threshold, and is rejected
C7_Witness ==
  /\ fres # NoResult
  /\ Normalized(ftext) \in NAVIGATION_BLOCKLIST
  /\ Len(Normalized(ftext)) >= 8
  /\ ftext # Normalized(ftext)
  /\ calculate_relevance_score(ftext, furl) >= fres.min_score
  /\ fres.min_score > 0
  /\ fres.pass = FALSE

(***************************************************************************)
(* C8: extending the text so that it matches one more regulatory keyword,  *)
(* every other scoring factor unchanged, never lowers the score that       *)
(* passes_filter returns.  As claimed, this fails: the longer text can be  *)
(* navigation junk, and passes_filter then returns 0.0.                    *)
(***************************************************************************)
ExtendedByOneKeyword ==
  /\ fprev # NoPrev
  /\ ffactors.reg_count = fprev.factors.reg_count + 1
  /\ ffactors.other = fprev.factors.other

C8_ScoreNeverLower_AsClaimed ==
  ExtendedByOneKeyword => fres.score >= fprev.res.score

\* C8 as amended: the returned score is not lowered unless the extended text
\* is navigation junk (for which passes_filter returns 0.0).
C8_ScoreNeverLowerUnlessJunk ==
  (ExtendedByOneKeyword /\ ~ffactors.junk) => fres.score >= fprev.res.score

\* one more keyword raised the score of a text that is not junk
C8_Witness ==
  /\ ExtendedByOneKeyword
  /\ ~ffactors.junk
  /\ ~fprev.factors.junk
  /\ fres.score = fprev.res.score + 5

(***************************************************************************)
(* C9: passes_filter returns pass = True exactly when the candidate is not *)
(* navigation junk and its score is at least min_score (a score equal to   *)
(* min_score passes), and the returned score lies in [0, 1].               *)
(***************************************************************************)
C9_PassIffNotJunkAndScoreAtLeastMin ==
  fres # NoResult =>
    /\ fres.pass = (~is_navigation_junk(ftext, furl) /\ fres.score >= fres.min_score)
    /\ fres.score >= 0
    /\ fres.score <= 100

\* a tie: a candidate that is not junk and scores exactly min_score passes
C9_Witness ==
  /\ fres # NoResult
  /\ ~is_navigation_junk(ftext, furl)
  /\ fres.score = fres.min_score
  /\ fres.min_score = DEFAULT_MIN_SCORE
  /\ fres.pass = TRUE

(***************************************************************************)
(* C11: when save_document raises in the save loop, the run stops there:   *)
(* the documents before the failing one are the only ones saved, no        *)
(* country report and no summary is handed to the reporter, no row of      *)
(* scan_log is written, and the process exits with a status other than 0.  *)
(***************************************************************************)
C11_StoreFailureAbortsScan ==
  pc = "aborted"
    => /\ process.exited
       /\ process.status # 0
       /\ \A i \in DOMAIN sent : sent[i].kind \notin {"country", "summary"}
       /\ Len(scan_log) = hist.logged
       /\ cursor < Len(new_docs)
       /\ persisted \in {Urls(SubSeq(new_docs, 1, cursor)),
                         Urls(SubSeq(new_docs, 1, cursor + 1))}

\* the store failed on the second document of a run that had relevant ones
C11_Witness ==
  /\ pc = "aborted"
  /\ cursor = 1
  /\ relevant # <<>>
  /\ process.status = 1
  /\ sent = <<>>

\* ---------------------------------------------------------------------
\* A scan whose analysis meets every behaviour of the endpoint: the first
\* source fails, the second lists a page and a PDF, and each request of
\* analyze is answered 200 with a verdict, 429, or not at all.
\* ---------------------------------------------------------------------

AnalyzeKinds == {Answered(AnswerYes), Status(429), PostRaised("timeout")}

AnalyzeRuns == [1..MaxResponses -> AnalyzeKinds]

GazettePage ==
  [raised |-> FALSE, status |-> 200,
   anchors |-> <<GazetteNotice, Anchor("/faq", "FAQs"), PayeNotice>>]

SourceDown == [raised |-> TRUE, status |-> 0, anchors |-> <<>>]

AnalyzeNext ==
  \/ StartScan
  \/ ScanRepo(1, SourceDown)
  \/ ScanRepo(2, GazettePage)
  \/ Gather
  \/ AnalyzeBatchWith(AnalyzeRuns, ScanGets)
  \/ SaveDocument
  \/ SaveFail
  \/ Report
  \/ \E duration \in Durations : Summary(duration)

SpecAnalyze == Init /\ [][AnalyzeNext]_vars

\* a request that got no usable answer: rate limited, or an exception (the
\* POST raising, or a 200 whose body has no candidates)
Failed(response) ==
  \/ response.raised
  \/ response.status = 429
  \/ response.status = 200 /\ response.candidates = <<>>

AllFailed(a) ==
  /\ Len(a.responses) = GEMINI_RETRY_ATTEMPTS
  /\ \A k \in DOMAIN a.responses : Failed(a.responses[k])

\* C12: when every attempt of analyze for a document fails (429 each time,
\* an exception each time, or a mix), analyze returns (not relevant, OTHER)
\* without raising, the document is persisted as not relevant, and the scan
\* goes on: every new document is analysed and the scan does not exit
\* non-zero because of it.
C12_ExhaustedAnalysisIsNotRelevant ==
  \A i \in DOMAIN attempts :
    AllFailed(attempts[i])
      => /\ ~attempts[i].raised
         /\ ~attempts[i].result.is_relevant
         /\ attempts[i].result.category = "other"
         /\ ~new_docs[i].is_relevant
         /\ new_docs[i].ai_summary = attempts[i].result.summary
         /\ Len(attempts) = Len(new_docs)
         /\ pc \in {"report", "summary", "done"}
              => \E row \in documents :
                   /\ row.url = new_docs[i].url
                   /\ row.is_relevant = 0
                   /\ row.ai_summary = attempts[i].result.summary
         /\ pc = "done" => process = main("returned")

C12_Witness ==
  /\ pc = "done"
  /\ Len(attempts) = 2
  /\ AllFailed(attempts[1])
  /\ attempts[1].responses[1].raised
  /\ attempts[1].responses[2].status = 429
  /\ attempts[2].result.is_relevant
  /\ \E row \in documents : row.url = new_docs[1].url /\ row.is_relevant = 0
  /\ \E row \in documents : row.url = new_docs[2].url /\ row.is_relevant = 1
  /\ \E i \in DOMAIN sent : sent[i].kind = "country"

\* ---------------------------------------------------------------------
\* One call of GeminiAnalyzer.analyze: a document, the content the
\* extractor got for it (or none, when the extraction gave no tuple), and
\* the responses of the endpoint.
\* ---------------------------------------------------------------------

DocumentCategory == {"tax", "labor", "pension", "social_security", "compliance", "other"}

CallKinds ==
  {Answered(AnswerYes), NoCandidates, Status(429), Status(500), PostRaised("timeout")}

CallRuns == [1..MaxResponses -> CallKinds]

CallDocs == SeqToSet(Harvest[2][GazettePage])

\* content_snippet stays None when the extraction gave no tuple
Missing == <<None, FALSE>>

Contents(doc) ==
  {FetchContent(doc, pdf_support, response) :
     pdf_support \in BOOLEAN,
     response \in IF doc.is_pdf THEN PdfResponses ELSE PageResponses}
    \cup {Missing}

CallInit ==
  /\ FilterIdle
  /\ \E doc \in CallDocs : \E content \in Contents(doc) : \E responses \in CallRuns :
       acall = [function |-> "analyze", doc |-> doc, content |-> content,
                responses |-> responses, out |-> NoCall]
  /\ scall = NoCall
  /\ OthersIdle
  /\ StoreInit
  /\ ScannerIdle
  /\ ObserverInit

Analyze ==
  /\ acall.function = "analyze"
  /\ acall.out = NoCall
  /\ acall' = [acall EXCEPT !.out = analyze(WithContent(acall.doc, acall.content[1]),
                                            acall.responses)]
  /\ UNCHANGED <<filterVars, scall, otherVars, storeVars, scanVars, observerVars>>

CallNext == Analyze

SpecCall == CallInit /\ [][CallNext]_vars

Returned == acall.function = "analyze" /\ acall.out # NoCall

\* the values ContentExtractor returns in place of a text
FailureValue(text) ==
  \/ text \in {"[Scanned PDF - no text]", "[PDF too large]"}
  \/ StartsWith(text, "[HTTP ") /\ EndsWith(text, "]")
  \/ StartsWith(text, "[PDF Error: ") /\ EndsWith(text, "]")

IsVerdict(result) ==
  /\ DOMAIN result = {"is_relevant", "summary", "category"}
  /\ result.is_relevant \in BOOLEAN
  /\ result.category \in DocumentCategory

\* C13: when the content of a document is a failure value of
\* ContentExtractor ('[Scanned PDF - no text]', '[PDF too large]',
\* '[HTTP n]', '[PDF Error: ...]'), any other value the extractor returns
\* for a failure, or missing, analyze asks with the title-only prompt and
\* still returns a verdict without raising.
C13_FailedContentUsesTitlePrompt ==
  (Returned /\ (acall.content = Missing \/ ~acall.content[2]
                  \/ FailureValue(acall.content[1])))
    => /\ acall.out.prompt = TitlePrompt(acall.doc)
       /\ acall.out.prompt # ContentPrompt(WithContent(acall.doc, acall.content[1]))
       /\ ~acall.out.raised
       /\ IsVerdict(acall.out.result)

C13_Witness ==
  /\ Returned
  /\ acall.content[1] = "[Scanned PDF - no text]"
  /\ acall.out.prompt = TitlePrompt(acall.doc)
  /\ acall.out.result.is_relevant
  /\ acall.out.result.category = "tax"

Terminal(response) ==
  /\ ~response.raised
  /\ response.status # 429
  /\ response.status = 200 => response.candidates # <<>>

\* C20: whatever the endpoint answers (200, 429, another status, or an
\* exception, in any order), one call of analyze issues at most
\* GEMINI_RETRY_ATTEMPTS requests and ends with a result: it stops at the
\* first response that is a verdict or another status, and after the last
\* attempt otherwise.
C20_AtMostRetryAttemptsRequests ==
  Returned
    => /\ acall.out.requests \in 1..GEMINI_RETRY_ATTEMPTS
       /\ ~acall.out.raised
       /\ IsVerdict(acall.out.result)
       /\ \A k \in 1..(acall.out.requests - 1) : ~Terminal(acall.responses[k])
       /\ acall.out.requests < GEMINI_RETRY_ATTEMPTS
            => Terminal(acall.responses[acall.out.requests])

C20_Witness ==
  /\ Returned
  /\ acall.out.requests = GEMINI_RETRY_ATTEMPTS
  /\ acall.responses[1] = PostRaised("timeout")
  /\ acall.responses[2] = NoCandidates
  /\ acall.responses[3] = Status(429)
  /\ acall.responses[4] = Answered(AnswerYes)
  /\ acall.out.result = Failure("Max retries")

\* ---------------------------------------------------------------------
\* One call of a send function: a message of a length around the limit
\* and the responses of the Telegram endpoint.
\* ---------------------------------------------------------------------

\* how far around the limit the lengths of the messages go
MaxExcess == 2

RECURSIVE Doubled(_, _)
Doubled(s, n) == IF Len(s) >= n THEN s ELSE Doubled(s \o s, n)

\* a message of n characters
Fill(n) == SubSeq(Doubled("PAYE notice 2025/07; ", n), 1, n)

SendLengths ==
  {0, 1, TRUNCATED_LENGTH, TRUNCATED_LENGTH + 1, 2 * TELEGRAM_LIMIT}
    \cup (TELEGRAM_LIMIT - MaxExcess)..(TELEGRAM_LIMIT + MaxExcess)

SendFunctions == {"send", "send_message", "send_telegram"}

SendInit ==
  /\ FilterIdle
  /\ acall = NoCall
  /\ OthersIdle
  /\ \E f \in SendFunctions : \E n \in SendLengths :
       \E responses \in [1..2 -> TelegramResponses] :
         scall = [function |-> f, message |-> Fill(n), responses |-> responses,
                  out |-> NoCall]
  /\ StoreInit
  /\ ScannerIdle
  /\ ObserverInit

SendReturn(f, out) ==
  /\ scall.function = f
  /\ scall.out = NoCall
  /\ scall' = [scall EXCEPT !.out = out]
  /\ UNCHANGED <<filterVars, acall, otherVars, storeVars, scanVars, observerVars>>

Send == SendReturn("send", sendCall(scall.message, scall.responses))

SendMessage == SendReturn("send_message", send_message(scall.message, scall.responses))

SendTelegram == SendReturn("send_telegram", send_telegram(scall.message, scall.responses))

SendNext == Send \/ SendMessage \/ SendTelegram

SpecSend == SendInit /\ [][SendNext]_vars

Sent(f) == scall.function = f /\ scall.out # NoCall

\* C14: every text TelegramReporter.send (audit.py) and
\* TelegramReporter.send_message (payroll_news_monitor.py) post has at most
\* 4000 characters: a longer message is posted as its first 3900 characters
\* followed by the truncation marker, a message of at most 4000 characters
\* is posted unchanged.
C14_ReporterPostsAtMostLimit ==
  (Sent("send") \/ Sent("send_message"))
    => \A i \in DOMAIN scall.out.posts :
         LET text == scall.out.posts[i].text
         IN  /\ Len(text) <= 4000
             /\ Len(scall.message) <= 4000 => text = scall.message
             /\ Len(scall.message) > 4000
                  => text = SubSeq(scall.message, 1, 3900) \o "\n\n_(truncated)_"

C14_Witness ==
  /\ Sent("send_message")
  /\ Len(scall.message) = 4001
  /\ Len(scall.out.posts) = 2
  /\ Len(scall.out.posts[2].text) = 3915
  /\ scall.out.returned

\* C15: every text send_telegram (calude_audit.py) posts has at most 4000
\* characters.
C15_SendTelegramPostsAtMostLimit ==
  Sent("send_telegram")
    => \A i \in DOMAIN scall.out.posts : Len(scall.out.posts[i].text) <= 4000

\* ---------------------------------------------------------------------
\* Delivery failures, the terminal message and the scan log
\* ---------------------------------------------------------------------

DeliveryFailed(d) == d.response.raised \/ d.response.status # 200

ReportCountries == {relevant[i].country : i \in DOMAIN relevant}

KindsSent == [i \in DOMAIN sent |-> sent[i].kind]

\* C16: when the POST of a jurisdiction report or of the summary is
\* answered with another status than 200 or raises, send returns False and
\* does not raise; every jurisdiction with a relevant document still gets
\* its report, the summary is still handed, the row of scan_log is written,
\* the scan returns, and the documents table holds the rows of the new
\* documents, as it does when every POST is answered 200.
C16_DeliveryFailureIsNotFatal ==
  /\ Len(delivered) = Len(sent)
  /\ \A i \in DOMAIN delivered : delivered[i].returned = ~DeliveryFailed(delivered[i])
  /\ pc # "aborted"
  /\ process.status = 0
  /\ documents = {Row(new_docs[i]) : i \in DOMAIN new_docs}
  /\ pc \in {"summary", "done"}
       => /\ \A c \in ReportCountries :
               \E i \in DOMAIN sent : sent[i].kind = "country" /\ sent[i].country = c
          /\ Len(SelectSeq(KindsSent, LAMBDA k : k = "country")) = Cardinality(ReportCountries)
  /\ pc = "done"
       => /\ sent[Len(sent)].kind = "summary"
          /\ Len(scan_log) = 1
          /\ scan_log[1].docs_found = Len(new_docs)
          /\ process = main("returned")

C16_Witness ==
  /\ pc = "done"
  /\ Len(sent) = 3
  /\ delivered[1].response.raised
  /\ delivered[2].response.status = 400
  /\ DeliveryFailed(delivered[3])
  /\ \A i \in DOMAIN delivered : ~delivered[i].returned
  /\ Len(scan_log) = 1

ScanRunning == pc \in {"scan_repos", "analyze", "save", "report", "summary"}

\* C17: a scan that is not aborted by an error of the store ends having
\* handed exactly one terminal message, the 'No new updates found' message
\* when no document is new and the summary of send_summary otherwise; the
\* terminal message is the last one, after every jurisdiction report, and
\* none is handed before the end.  A scan is aborted only while saving.
C17_OneTerminalMessageLast ==
  /\ ScanRunning => \A i \in DOMAIN sent : sent[i].kind = "country"
  /\ pc = "aborted" => cursor < Len(new_docs) /\ sent = <<>>
  /\ pc = "done"
       => /\ sent # <<>>
          /\ \A i \in 1..(Len(sent) - 1) : sent[i].kind = "country"
          /\ sent[Len(sent)].kind = IF new_docs = <<>> THEN "none" ELSE "summary"
          /\ new_docs = <<>> => sent = <<NoNewUpdates>>
          /\ \A c \in ReportCountries :
               \E i \in 1..(Len(sent) - 1) : sent[i].country = c

C17_Witness ==
  /\ pc = "done"
  /\ \E r \in Repos : ~fetched[r].ok
  /\ Len(sent) = 2
  /\ sent[1].kind = "country"
  /\ sent[2].kind = "summary"
  /\ Len(relevant) < Len(new_docs)

\* C18: a scan that ends without a fatal error has appended exactly one
\* row to scan_log, whether or not a document was new or relevant.
C18_OneScanLogRowPerScan ==
  pc = "done" => Len(scan_log) = hist.logged + 1

\* ---------------------------------------------------------------------
\* passes_filter on candidates whose URL matches a navigation pattern
\* ---------------------------------------------------------------------

NavUrls ==
  {"https://x.gov/login", "https://x.gov/Login?next=/circular/c12",
   "https://x.gov/about/team", "https://x.gov/notices#top",
   "javascript:void(0)", "mailto:info@x.gov",
   "https://x.gov/about/c.PDF", "https://x.gov/act.pdf#page=2",
   "https://x.gov/circular/c12"}

NavInit ==
  /\ ftext \in Vocab
  /\ furl \in NavUrls
  /\ fres = NoResult
  /\ fprev = NoPrev
  /\ ffactors = NoFactors
  /\ CallsIdle
  /\ StoreInit
  /\ ScannerIdle
  /\ ObserverInit

SpecFilterUrl == NavInit /\ [][FilterNext]_vars

ClaimedUrlPatterns == {"/login", "/about", "#", "javascript:", "mailto:"}

MatchesClaimedPattern(url) == \E p \in ClaimedUrlPatterns : Contains(url, p)

\* C19 as stated: every candidate whose URL contains '/login', '/about',
\* '#', 'javascript:' or 'mailto:' is rejected by passes_filter with
\* (False, 0.0), whatever its text and the score it would get.
C19_NavigationUrlRejected_AsClaimed ==
  (fres # NoResult /\ MatchesClaimedPattern(furl))
    => (fres.pass = FALSE /\ fres.score = 0)

\* C19: every candidate whose URL contains '/login', '/about', '#',
\* 'javascript:' or 'mailto:' and, lower-cased, does not contain '.pdf' is
\* rejected by passes_filter with (False, 0.0), whatever its text and the
\* score it would get.
C19_NavigationUrlRejectedUnlessPdf ==
  (fres # NoResult /\ MatchesClaimedPattern(furl) /\ ~Contains(Lower(furl), ".pdf"))
    => (fres.pass = FALSE /\ fres.score = 0)

\* a text that would pass on its score is rejected for its URL
C19_Witness ==
  /\ fres # NoResult
  /\ Contains(furl, "#")
  /\ ~Contains(Lower(furl), ".pdf")
  /\ ~is_navigation_junk(ftext, "https://x.gov/circular/c12")
  /\ calculate_relevance_score(ftext, furl) >= fres.min_score
  /\ fres.min_score = DEFAULT_MIN_SCORE
  /\ fres.pass = FALSE
  /\ fres.score = 0

\* ---------------------------------------------------------------------
\* Scanner._rate_limit and the GETs of one scan.  _scan_repos starts one
\* _scan_repo task per source; each calls _rate_limit for its domain and
\* then GETs the page.  _analyze then GETs the content of each document.
\* Time is counted in half seconds.
\* ---------------------------------------------------------------------

\* Config.RATE_LIMIT_PER_DOMAIN, 1.5 seconds
RATE_LIMIT_PER_DOMAIN == 3

\* the sources of one domain, the ticks of the clock, the documents fetched
MaxTasks == 3
MaxTicks == 4
MaxFetches == 2

SharedDomain == "incometaxindia.gov.in"

\* time.time() at the start of the scan: long after the 0.0 that
\* defaultdict(float) gives for a domain not requested yet
StartTime == 2 * RATE_LIMIT_PER_DOMAIN

RateTasks == 1..MaxTasks

RateInit ==
  /\ FilterIdle
  /\ acall = NoCall
  /\ scall = NoCall
  /\ now = StartTime
  /\ rate_limiter = [d \in {SharedDomain} |-> 0]
  /\ tasks = [t \in RateTasks |-> [pc |-> "start", wake |-> 0]]
  /\ requests = <<>>
  /\ MonitorIdle
  /\ AuditIdle
  /\ StoreInit
  /\ ScannerIdle
  /\ ObserverInit

Get(kind, domain, limited) ==
  [kind |-> kind, domain |-> domain, at |-> now, limited |-> limited]

\* lines 967-970, and 971 with the GET of line 857 when there is no sleep
RateLimit(t) ==
  /\ tasks[t].pc = "start"
  /\ LET last == rate_limiter[SharedDomain]
         elapsed == now - last
     IN  IF elapsed < RATE_LIMIT_PER_DOMAIN
         THEN /\ tasks' = [tasks EXCEPT ![t] = [pc |-> "sleeping",
                                               wake |-> now + RATE_LIMIT_PER_DOMAIN - elapsed]]
              /\ UNCHANGED <<rate_limiter, requests>>
         ELSE /\ rate_limiter' = [rate_limiter EXCEPT ![SharedDomain] = now]
              /\ requests' = Append(requests, Get("source", SharedDomain, TRUE))
              /\ tasks' = [tasks EXCEPT ![t].pc = "requested"]
  /\ UNCHANGED <<filterVars, acall, scall, now, monitorVars, auditVars, storeVars, scanVars,
                 observerVars>>

\* the sleep of line 970 is over: line 971 and the GET of line 857
Wake(t) ==
  /\ tasks[t].pc = "sleeping"
  /\ now >= tasks[t].wake
  /\ rate_limiter' = [rate_limiter EXCEPT ![SharedDomain] = now]
  /\ requests' = Append(requests, Get("source", SharedDomain, TRUE))
  /\ tasks' = [tasks EXCEPT ![t].pc = "requested"]
  /\ UNCHANGED <<filterVars, acall, scall, now, monitorVars, auditVars, storeVars, scanVars,
                 observerVars>>

\* the GET of extract_pdf (line 541) or extract_webpage (line 570) for a
\* document of the domain, once _scan_repos has returned
ContentGet ==
  /\ \A t \in RateTasks : tasks[t].pc = "requested"
  /\ Len(SelectSeq(requests, LAMBDA r : r.kind = "content")) < MaxFetches
  /\ requests' = Append(requests, Get("content", SharedDomain, FALSE))
  /\ UNCHANGED <<filterVars, acall, scall, now, rate_limiter, tasks, monitorVars, auditVars,
                 storeVars, scanVars, observerVars>>

Tick ==
  /\ now < StartTime + MaxTicks
  /\ now' = now + 1
  /\ UNCHANGED <<filterVars, acall, scall, rate_limiter, tasks, requests, monitorVars,
                 auditVars, storeVars, scanVars, observerVars>>

RateNext ==
  \/ \E t \in RateTasks : RateLimit(t)
  \/ \E t \in RateTasks : Wake(t)
  \/ ContentGet
  \/ Tick

SpecRate == RateInit /\ [][RateNext]_vars

\* C21: any two GETs of source pages of one domain are started at least
\* RATE_LIMIT_PER_DOMAIN apart, however many sources share the domain.
C21_SourceRequestsSpacedPerDomain ==
  \A i, j \in DOMAIN requests :
    (i < j /\ requests[i].kind = "source" /\ requests[j].kind = "source"
       /\ requests[i].domain = requests[j].domain)
      => requests[j].at - requests[i].at >= RATE_LIMIT_PER_DOMAIN

\* C22: every GET a scan sends to the domain of a source, the content
\* fetches of extract_pdf and extract_webpage included, comes after
\* _rate_limit has read and written the entry of the domain.
C22_EveryRequestConsultsRateLimiter ==
  \A i \in DOMAIN requests : requests[i].limited

\* ---------------------------------------------------------------------
\* One call of ContentExtractor.extract_pdf on a response whose body has
\* body_size bytes: what it returns and how much of the body it reads
\* ---------------------------------------------------------------------

PDF_SIZE_LIMIT == MAX_PDF_SIZE_MB * 1024 * 1024

\* the bytes line 549 reads: "await response.read()" reads the whole body,
\* and is reached when none of lines 537-547 has returned
body_read(pdf_support, response, body_size) ==
  IF ~pdf_support \/ response.raised \/ response.status # 200 THEN 0
  ELSE IF /\ response.content_length # <<>>
          /\ response.content_length[1] > PDF_SIZE_LIMIT
  THEN 0
  ELSE body_size

PdfSizes == {52000, PDF_SIZE_LIMIT, PDF_SIZE_LIMIT + 1, 5 * PDF_SIZE_LIMIT}

\* the content-length header: absent, the size of the body, or less
Declared(body_size) == {<<>>, <<body_size>>, <<1000>>}

PdfPages == {<<NoticeText>>, <<"", "  ">>, <<"KENYA REVENUE AUTHORITY", NoticeText, "", "Page 4">>}

PdfInit ==
  /\ FilterIdle
  /\ \E pdf_support \in BOOLEAN :
       \E body_size \in PdfSizes :
         \E response \in {GetPdf(cl, pages) : cl \in Declared(body_size), pages \in PdfPages}
                           \cup {GetStatus(404), GetRaised("Server disconnected")} :
           acall = [function |-> "extract_pdf", pdf_support |-> pdf_support,
                    response |-> response, body_size |-> body_size, out |-> NoCall]
  /\ scall = NoCall
  /\ OthersIdle
  /\ StoreInit
  /\ ScannerIdle
  /\ ObserverInit

ExtractPdf ==
  /\ acall.function = "extract_pdf"
  /\ acall.out = NoCall
  /\ acall' = [acall EXCEPT !.out =
                 [result |-> extract_pdf(acall.pdf_support, acall.response),
                  read |-> body_read(acall.pdf_support, acall.response, acall.body_size)]]
  /\ UNCHANGED <<filterVars, scall, otherVars, storeVars, scanVars, observerVars>>

PdfNext == ExtractPdf

SpecPdf == PdfInit /\ [][PdfNext]_vars

\* C23: a body larger than MAX_PDF_SIZE_MB is never read by extract_pdf:
\* no byte of it is read and, when the response is a 200, the download is
\* rejected with '[PDF too large]', whether or not the response declares a
\* content-length.
C23_OversizedBodyNeverRead ==
  (acall.function = "extract_pdf" /\ acall.out # NoCall
     /\ acall.body_size > PDF_SIZE_LIMIT)
    => /\ acall.out.read = 0
       /\ (acall.pdf_support /\ ~acall.response.raised /\ acall.response.status = 200)
            => acall.out.result = <<"[PDF too large]", FALSE>>

\* C29: analyze asks with the full-content prompt exactly when the
\* extraction of the content succeeded (its flag is True), and with the
\* title-only prompt exactly when it failed, whatever the extracted text
\* is, an empty text or one beginning with '[' included.
C29_ContentPromptIffExtractionSucceeded ==
  (Returned /\ acall.content # Missing)
    => /\ acall.content[2]
            <=> acall.out.prompt = ContentPrompt(WithContent(acall.doc, acall.content[1]))
       /\ ~acall.content[2] <=> acall.out.prompt = TitlePrompt(acall.doc)

(***************************************************************************)
(* calude_audit.py: extract_date and detect_change, called on bounded      *)
(* titles and contents.                                                    *)
(***************************************************************************)
\* A pattern of extract_date: what precedes group 1, group 1, what follows.
Grouped(pre, grp, post) == [pre |-> pre, grp |-> grp, post |-> post]

\* extract_date.patterns, in the order of the source; all are searched with
\* re.IGNORECASE, so the month names are written in lower case and searched
\* in the lower-cased text.
date_patterns ==
  << Grouped(Cat(<<>>), Rep(Digit, 1, 2),
             Cat(<<Dash, Rep(Digit, 1, 2), Dash, Rep(Digit, 4, 4)>>)),
     Grouped(Cat(<<>>), Month,
             Cat(<<Plus(Ws), Rep(Digit, 1, 2), Opt(Lit(",")), Plus(Ws), Rep(Digit, 4, 4)>>)),
     Grouped(Cat(<<>>), Rep(Digit, 4, 4),
             Cat(<<Dash, Rep(Digit, 1, 2), Dash, Rep(Digit, 1, 2)>>)),
     Grouped(Lit("_"), Rep(Digit, 8, 8), Lit("_")),
     Grouped(Lit("_"), Rep(Digit, 8, 8), Cat(<<>>)),
     Grouped(Cat(<<>>), Rep(Digit, 8, 8), Cat(<<>>)) >>

Whole(pattern) == Cat(<<pattern.pre, pattern.grp, pattern.post>>)

SetMin(S) == CHOOSE x \in S : \A y \in S : x <= y
SetMax(S) == CHOOSE x \in S : \A y \in S : y <= x

\* match.group(1) of re.search(pattern, text): the match starts at the
\* leftmost position that admits one, and the greedy group takes the longest
\* stretch after which the rest of the pattern still matches.
Group1(pattern, text) ==
  LET lowered == Lower(text)
      start == SetMin({p \in 0..Len(text) : Ends(Whole(pattern), lowered, {p}) # {}})
      from  == SetMin(Ends(pattern.pre, lowered, {start}))
      to    == SetMax({e \in Ends(pattern.grp, lowered, {from}) :
                         Ends(pattern.post, lowered, {e}) # {}})
  IN  SubSeq(text, from + 1, to)

IsDigits(s) == s # "" /\ \A i \in 1..Len(s) : CharAt(s, i) \in DigitChars

UNKNOWN == "UNKNOWN"

RECURSIVE extract_dateFrom(_, _)
extract_dateFrom(n, text) ==
  IF n > Len(date_patterns) THEN UNKNOWN
  ELSE IF Search(Whole(date_patterns[n]), Lower(text))
  THEN LET date_str == Group1(date_patterns[n], text)
       IN  IF Len(date_str) = 8 /\ IsDigits(date_str)
           THEN SubSeq(date_str, 1, 2) \o "-" \o SubSeq(date_str, 3, 4) \o "-"
                  \o SubSeq(date_str, 5, 8)
           ELSE date_str
  ELSE extract_dateFrom(n + 1, text)

extract_date(text) == extract_dateFrom(1, text)

\* CHANGE_KEYWORDS, the entries of two of its ten countries.
CHANGE_KEYWORDS ==
  [ UAE |->
      [rate_change |-> <<"corporate tax", "emiratisation", "wage protection",
                         "withholding", "gratuity", "amended", "revised">>,
       effective_date |-> <<"effective", "implementation", "from date",
                            "applicable from">>,
       circular_type |-> <<"resolution", "cabinet decision", "ministerial",
                           "federal decree", "circular">>],
    Kenya |->
      [rate_change |-> <<"paye", "nssf", "fringe benefit", "affordable housing",
                         "tax rate", "amended", "changed">>,
       effective_date |-> <<"effective", "applicable", "from", "january",
                            "quarter">>,
       circular_type |-> <<"public notice", "legal notice", "practice note",
                           "gazette">>] ]

AnyIn(kws, combined) == \E n \in DOMAIN kws : Contains(combined, kws[n])

\* The truth value of a Python string: the empty string only is false.
Truthy(s) == s # ""

\* detect_change(country, title, content): <<change_type, keywords>>.
detect_change(country, title, content) ==
  LET combined == Lower(title \o " " \o content)
  IN  IF country \notin DOMAIN CHANGE_KEYWORDS THEN <<None, <<>>>>
      ELSE LET keywords == CHANGE_KEYWORDS[country]
               matched_changes ==
                 SelectSeq(keywords.rate_change, LAMBDA kw : Contains(combined, kw))
               has_date == \/ AnyIn(keywords.effective_date, combined)
                           \/ Truthy(extract_date(combined))
           IN  IF ~AnyIn(keywords.circular_type, combined) THEN <<None, <<>>>>
               ELSE IF matched_changes = <<>> THEN <<None, <<>>>>
               ELSE <<"POLICY_CHANGE", IF has_date THEN matched_changes ELSE <<>>>>

DetectCountries == {"Kenya", "UAE", "Brazil"}
DetectTypes == {"", "Public Notice: ", "Cabinet Decision: "}
DetectRates == {"office hours", "PAYE bands amended", "Corporate Tax revised"}
DetectDates ==
  {"", " effective immediately", " 22/01/2026", " March 3, 2026",
   " ref_22012026_", " 2026-01-05"}
DetectContents == {"", "NSSF rates from 05-02-2026"}
DetectTitles == {type \o rate \o date :
                   type \in DetectTypes, rate \in DetectRates, date \in DetectDates}

DetectInit ==
  /\ FilterIdle
  /\ \E country \in DetectCountries : \E title \in DetectTitles :
       \E content \in DetectContents :
         acall = [function |-> "detect_change", country |-> country,
                  title |-> title, content |-> content, out |-> NoCall]
  /\ scall = NoCall
  /\ OthersIdle
  /\ StoreInit
  /\ ScannerIdle
  /\ ObserverInit

DetectChange ==
  /\ acall.function = "detect_change"
  /\ acall.out = NoCall
  /\ acall' = [acall EXCEPT !.out =
                 [result |-> detect_change(acall.country, acall.title, acall.content),
                  date |-> extract_date(Lower(acall.title \o " " \o acall.content))]]
  /\ UNCHANGED <<filterVars, scall, otherVars, storeVars, scanVars, observerVars>>

DetectNext == DetectChange

SpecDetect == DetectInit /\ [][DetectNext]_vars

\* A date that extract_date recognises: one of its patterns matches.
DateRecognised(text) ==
  \E n \in DOMAIN date_patterns : Search(Whole(date_patterns[n]), Lower(text))

\* C30: for a known country the keyword list detect_change returns is
\* non-empty only if the text contains an effective-date keyword of that
\* country or a date extract_date recognises; a text with a document-type
\* keyword and a rate-change keyword but no date evidence yields the empty
\* list.
C30_KeywordsOnlyWithDateEvidence ==
  (acall.function = "detect_change" /\ acall.out # NoCall
     /\ acall.country \in DOMAIN CHANGE_KEYWORDS /\ acall.out.result[2] # <<>>)
    => LET combined == Lower(acall.title \o " " \o acall.content)
       IN  \/ AnyIn(CHANGE_KEYWORDS[acall.country].effective_date, combined)
           \/ DateRecognised(combined)

(***************************************************************************)
(* payroll_news_monitor.py: TelegramReporter.send_report.  An emoji is     *)
(* written as a mark of as many characters as it has code points.          *)
(***************************************************************************)
NewsArticle(title, link, source, published, country, category, ai_summary) ==
  [title |-> title, link |-> link, source |-> source, published |-> published,
   country |-> country, category |-> category, ai_summary |-> ai_summary,
   url_hash |-> md5(link)]

EmojiGlobe == "@"

country_flags ==
  [India |-> "IN", UAE |-> "AE", Philippines |-> "PH", Nigeria |-> "NG",
   Zimbabwe |-> "ZW"]

category_labels ==
  [statutory_change |-> "S Statutory Change",
   compliance_deadline |-> "D Compliance Deadline",
   general_payroll |-> "N Payroll Update"]

Flag(country) ==
  IF country \in DOMAIN country_flags THEN country_flags[country] ELSE EmojiGlobe

MAX_PER_CATEGORY == 8
MONITOR_TITLE_LENGTH == 100
MONITOR_SUMMARY_LENGTH == 200
PUBLISHED_LENGTH == 16
RULE_LENGTH == 30
SPLIT_LENGTH == 3800

\* lines 594-603
Sanitize(s) == Replace(Replace(Replace(Replace(s, "*", ""), "_", ""), "[", "("), "]", ")")

\* lines 594-609: the entry of one article
Entry(a) ==
  LET safe_title == Sanitize(Take(a.title, MONITOR_TITLE_LENGTH))
      safe_summary == Sanitize(Take(a.ai_summary, MONITOR_SUMMARY_LENGTH))
  IN  "- *" \o safe_title \o "*\n"
        \o (IF safe_summary # "" THEN "  > " \o safe_summary \o "\n" ELSE "")
        \o "  N " \o a.source \o " | "
        \o (IF a.published # "" THEN Take(a.published, PUBLISHED_LENGTH) ELSE "Recent")
        \o "\n"
        \o "  [Read more](" \o a.link \o ")\n\n"

RECURSIVE Entries(_)
Entries(articles) ==
  IF articles = <<>> THEN "" ELSE Entry(Head(articles)) \o Entries(Tail(articles))

\* the articles of a category that the report lists, line 592
Listed(articles, cat) ==
  Take(SelectSeq(articles, LAMBDA a : a.category = cat), MAX_PER_CATEGORY)

\* lines 588-611
RECURSIVE CategoryBlocks(_, _)
CategoryBlocks(cats, articles) ==
  IF cats = <<>> THEN ""
  ELSE "*" \o (IF Head(cats) \in DOMAIN category_labels
               THEN category_labels[Head(cats)] ELSE "P Other") \o "*\n\n"
         \o Entries(Listed(articles, Head(cats))) \o "\n"
         \o CategoryBlocks(Tail(cats), articles)

\* lines 578-611: the message of one country
MonitorMessage(country, articles) ==
  Flag(country) \o " *" \o Upper(country) \o " - PAYROLL UPDATES*\n"
    \o "_" \o Str(Len(articles)) \o " update(s) found_\n"
    \o SubSeq(Doubled("=", RULE_LENGTH), 1, RULE_LENGTH) \o "\n\n"
    \o CategoryBlocks(GroupKeys([i \in DOMAIN articles |-> articles[i].category]),
                      articles)

\* lines 613-628: the texts handed to send_message for one country
MonitorParts(country, msg) ==
  IF Len(msg) > MONITOR_LIMIT
  THEN LET found == LastIndexOf(Take(msg, SPLIT_LENGTH), "\n\n")
           split_point == IF found = 0 THEN SPLIT_LENGTH ELSE found - 1
       IN  << SubSeq(msg, 1, Min(split_point, Len(msg))),
              Flag(country) \o " *" \o Upper(country) \o " - CONTINUED*\n\n"
                \o SubSeq(msg, split_point + 1, Len(msg)) >>
  ELSE <<msg>>

\* lines 713-715 of main: the defaultdict by_country, as the countries in
\* the order of their first article and the articles of each
by_country(relevant_articles) ==
  LET keys == GroupKeys([i \in DOMAIN relevant_articles |-> relevant_articles[i].country])
  IN  [n \in DOMAIN keys |->
         [country |-> keys[n],
          articles |-> SelectSeq(relevant_articles, LAMBDA a : a.country = keys[n])]]

\* send_report(articles_by_country), the POSTs of the n-th call of
\* send_message answered by responses[n]: the message of each country, the
\* texts handed to send_message, what each call posted and returned, and
\* the count returned
send_report(articles_by_country, responses) ==
  LET messages == [n \in DOMAIN articles_by_country |->
                     MonitorMessage(articles_by_country[n].country,
                                    articles_by_country[n].articles)]
      handed == Concat([n \in DOMAIN articles_by_country |->
                          IF articles_by_country[n].articles = <<>> THEN <<>>
                          ELSE MonitorParts(articles_by_country[n].country, messages[n])])
  IN  [messages |-> messages,
       handed |-> handed,
       calls |-> [n \in DOMAIN handed |-> send_message(handed[n], responses[n])],
       sent_count |-> Len(handed)]

MaxArticles == 24
SplitCategories ==
  <<"statutory_change", "compliance_deadline", "general_payroll", "other">>
SplitCountries == {"India", "Ghana"}
SplitSummaries == {0, MONITOR_SUMMARY_LENGTH + 20}
SplitTitles == {"PAYE [Finance Act] tax_slab *revised*",
                "PAYE [Finance Act] tax_slab *revised* " \o Fill(MONITOR_TITLE_LENGTH)}
SplitPublished == "Mon, 02 Nov 2026 08:00:00 GMT"

SplitLink(i) == "https://news.google.com/rss/articles/CBMiWkFVX3lxTE" \o Str(i) \o "?oc=5"

\* n articles of one country, dealt in turn over the first k categories
SplitArticles(country, n, k, title, summary) ==
  [i \in 1..n |->
     NewsArticle(title, SplitLink(i), "Economic Times",
                 IF i % 2 = 0 THEN "" ELSE SplitPublished, country,
                 SplitCategories[((i - 1) % k) + 1], Fill(summary))]

AllOk == [n \in 1..(2 * MaxArticles) |-> <<TelegramOk, TelegramOk>>]

SplitInit ==
  /\ FilterIdle
  /\ acall = NoCall
  /\ OthersIdle
  /\ \E country \in SplitCountries : \E n \in 1..MaxArticles :
       \E k \in {1, 3, 4} : \E title \in SplitTitles : \E summary \in SplitSummaries :
         scall = [function |-> "send_report",
                  articles |-> SplitArticles(country, n, k, title, summary),
                  out |-> NoCall]
  /\ StoreInit
  /\ ScannerIdle
  /\ ObserverInit

SendReportCall == SendReturn("send_report", send_report(by_country(scall.articles), AllOk))

SplitNext == SendReportCall

SpecSplit == SplitInit /\ [][SplitNext]_vars

\* the articles the report of their country lists
ListedArticles(articles) ==
  {a \in SeqToSet(articles) : a \in SeqToSet(Listed(articles, a.category))}

LongReport ==
  /\ scall.function = "send_report"
  /\ scall.out # NoCall
  /\ \E n \in DOMAIN scall.out.messages : Len(scall.out.messages[n]) > MONITOR_LIMIT

\* C25: a country report of more than 4000 characters is split into parts
\* of at most 4000 characters each, so that send_message truncates none of
\* them and the entry of every listed article is posted.
C25_LongReportSplitWithinLimit ==
  LongReport
    => /\ \A n \in DOMAIN scall.out.handed : Len(scall.out.handed[n]) <= MONITOR_LIMIT
       /\ \A a \in ListedArticles(scall.articles) :
            \E n \in DOMAIN scall.out.calls :
              Contains(scall.out.calls[n].posts[1].text, "](" \o a.link \o ")")

(***************************************************************************)
(* payroll_news_monitor.py: Database and main, run again and again on the  *)
(* same database file.                                                     *)
(***************************************************************************)
\* Database.is_already_sent(url_hash)
news_is_already_sent(table, url_hash) == \E row \in table : row.url_hash = url_hash

\* Database.mark_sent(article): INSERT OR IGNORE on the primary key url_hash
mark_sent(table, a) ==
  IF \E row \in table : row.url_hash = a.url_hash THEN table
  ELSE table \cup {[url_hash |-> a.url_hash, url |-> a.link, title |-> a.title,
                    country |-> a.country, category |-> a.category,
                    ai_summary |-> a.ai_summary]}

RECURSIVE mark_all_sent(_, _)
mark_all_sent(table, articles) ==
  IF articles = <<>> THEN table
  ELSE mark_all_sent(mark_sent(table, Head(articles)), Tail(articles))

\* Database.log_scan(fetched, relevant, sent)
news_log_scan(log, total_fetched, relevant_count, sent_count) ==
  Append(log, [articles_fetched |-> total_fetched, articles_relevant |-> relevant_count,
               articles_sent |-> sent_count])

\* datetime.utcnow() as send_no_updates and send_summary format it
Stamp == "2026-11-02 06:00 UTC"

\* the text of send_no_updates, lines 635-640
NoUpdatesMessage ==
  "V *PAYROLL NEWS SCAN COMPLETE*\n\n"
    \o "No new statutory or compliance updates found today "
    \o "for India, UAE, Philippines, Nigeria, or Zimbabwe.\n\n"
    \o "D " \o Stamp

\* the text of send_summary, lines 644-651
MonitorSummary(total_fetched, relevant_count, sent_count, duration) ==
  "R *SCAN SUMMARY*\n\n"
    \o "- Articles scanned: *" \o Str(total_fetched) \o "*\n"
    \o "- Relevant updates: *" \o Str(relevant_count) \o "*\n"
    \o "- Messages sent: *" \o Str(sent_count) \o "*\n"
    \o "- Duration: *" \o Str(duration) \o "s*\n\n"
    \o "D " \o Stamp

\* what _parse_response sets on an article the answer calls relevant
Judged(a) ==
  [a EXCEPT !.category = "statutory_change",
            !.ai_summary = "New slab rates notified | Action: update payroll"]

\* analyze_batch(articles): the articles grouped by country, each group
\* (fewer than 25 articles, one chunk) answered by answers[country]: a chunk
\* whose call failed gives no article, an answered chunk gives its articles
\* that the answer calls relevant
analyze_batch(articles, answers) ==
  LET groups == by_country(articles)
  IN  Concat([n \in DOMAIN groups |->
                IF answers[groups[n].country].failed THEN <<>>
                ELSE LET chosen == SelectSeq(groups[n].articles,
                                     LAMBDA a : a.link \in answers[groups[n].country].relevant)
                     IN  [i \in DOMAIN chosen |-> Judged(chosen[i])]])

MaxMonitorRuns == 2
MonitorDuration == 42

NewsPool ==
  << NewsArticle("India revises TDS slab for salaried staff",
                 "https://news.google.com/rss/articles/CBMiIndia1?oc=5",
                 "Economic Times", "Mon, 02 Nov 2026 05:30:00 GMT", "India", "", ""),
     NewsArticle("UAE gratuity rules: what changes for employers",
                 "https://news.google.com/rss/articles/CBMiUae1?oc=5",
                 "Gulf News", "", "UAE", "", "") >>

\* what fetch_all can return: articles of the pool, each link once
NewsFeeds == {SelectSeq(NewsPool, LAMBDA a : a.link \in S) :
                S \in SUBSET {NewsPool[i].link : i \in DOMAIN NewsPool}}

NewsCountries == {NewsPool[i].country : i \in DOMAIN NewsPool}

Links(articles) == {articles[i].link : i \in DOMAIN articles}

\* the answers of the classifier to the chunks of a run
NewsAnswers(articles) ==
  {answers \in [NewsCountries -> [failed : BOOLEAN, relevant : SUBSET Links(articles)]] :
     \A c \in NewsCountries :
       /\ answers[c].relevant \subseteq {a.link : a \in {b \in SeqToSet(articles) : b.country = c}}
       /\ answers[c].failed => answers[c].relevant = {}}

\* the answers of Telegram to the POSTs of one call of send_message
DeliveryKinds ==
  { <<TelegramOk, TelegramOk>>,
    <<[raised |-> FALSE, status |-> 400], TelegramOk>>,
    <<[raised |-> TRUE, status |-> 0], TelegramOk>> }

MonitorStart(run) == [pc |-> "start", run |-> run]

MonitorInit ==
  /\ FilterIdle
  /\ acall = NoCall
  /\ scall = NoCall
  /\ RateIdle
  /\ AuditIdle
  /\ sent_articles = {}
  /\ news_log = <<>>
  /\ monitor = MonitorStart(1)
  /\ submitted = <<>>
  /\ posted = <<>>
  /\ StoreInit
  /\ ScannerIdle
  /\ ObserverInit

\* what an observer records of one call of send_message
PostedCall(kind, articles, call) ==
  [run |-> monitor.run, kind |-> kind,
   links |-> {l \in Links(articles) :
                Contains(call.posts[1].text, "](" \o l \o ")")},
   returned |-> call.returned]

\* lines 684-686, 694-696 and 707-709: send_no_updates, log_scan, return
NoUpdates(total_fetched, delivery) ==
  /\ posted' = Append(posted,
                      PostedCall("no_updates", <<>>, send_message(NoUpdatesMessage, delivery)))
  /\ news_log' = news_log_scan(news_log, total_fetched, 0, 0)
  /\ monitor' = MonitorStart(monitor.run + 1)

\* lines 674-696
MonitorFetch ==
  /\ monitor.pc = "start"
  /\ monitor.run <= MaxMonitorRuns
  /\ \E all_articles \in NewsFeeds : \E delivery \in DeliveryKinds :
       LET new_articles ==
             SelectSeq(all_articles,
                       LAMBDA a : ~news_is_already_sent(sent_articles, a.url_hash))
       IN  IF all_articles = <<>> THEN NoUpdates(0, delivery)
           ELSE IF new_articles = <<>> THEN NoUpdates(Len(all_articles), delivery)
           ELSE /\ monitor' = [pc |-> "analyze", run |-> monitor.run,
                               all_articles |-> all_articles,
                               new_articles |-> new_articles]
                /\ UNCHANGED <<posted, news_log>>
  /\ UNCHANGED <<filterVars, acall, scall, rateVars, auditVars, sent_articles, submitted,
                 storeVars, scanVars, observerVars>>

\* lines 698-709
MonitorAnalyze ==
  /\ monitor.pc = "analyze"
  /\ \E answers \in NewsAnswers(monitor.new_articles) : \E delivery \in DeliveryKinds :
       \E relevant_articles \in {analyze_batch(monitor.new_articles, answers)} :
         /\ submitted' =
              Append(submitted,
                     [run |-> monitor.run,
                      links |-> Links(monitor.new_articles),
                      judged |-> {a.link : a \in {b \in SeqToSet(monitor.new_articles) :
                                                    ~answers[b.country].failed}},
                      relevant |-> Links(relevant_articles)])
         /\ IF relevant_articles = <<>>
            THEN NoUpdates(Len(monitor.all_articles), delivery)
            ELSE /\ monitor' = [pc |-> "report", run |-> monitor.run,
                                all_articles |-> monitor.all_articles,
                                new_articles |-> monitor.new_articles,
                                relevant_articles |-> relevant_articles]
                 /\ UNCHANGED <<posted, news_log>>
  /\ UNCHANGED <<filterVars, acall, scall, rateVars, auditVars, sent_articles,
                 storeVars, scanVars, observerVars>>

\* lines 711-726
MonitorReport ==
  /\ monitor.pc = "report"
  /\ \E responses \in [1..3 -> DeliveryKinds] :
       \E out \in {send_report(by_country(monitor.relevant_articles), responses)} :
         \E summary \in {send_message(MonitorSummary(Len(monitor.all_articles),
                                                     Len(monitor.relevant_articles),
                                                     out.sent_count, MonitorDuration),
                                      responses[3])} :
           /\ sent_articles' = mark_all_sent(sent_articles, monitor.relevant_articles)
           /\ posted' = posted
                          \o [n \in DOMAIN out.calls |->
                                PostedCall("report", monitor.relevant_articles, out.calls[n])]
                          \o <<PostedCall("summary", <<>>, summary)>>
           /\ news_log' = news_log_scan(news_log, Len(monitor.all_articles),
                                        Len(monitor.relevant_articles), out.sent_count)
           /\ monitor' = MonitorStart(monitor.run + 1)
  /\ UNCHANGED <<filterVars, acall, scall, rateVars, auditVars, submitted,
                 storeVars, scanVars, observerVars>>

MonitorNext == MonitorFetch \/ MonitorAnalyze \/ MonitorReport

SpecMonitor == MonitorInit /\ [][MonitorNext]_vars

\* C24: an article handed to the classifier in one completed run and judged
\* not relevant is not handed to it again in a later run that fetches the
\* same link.
C24_NotRelevantNotSubmittedAgain ==
  \A i \in DOMAIN submitted : \A j \in DOMAIN submitted :
    (submitted[i].run < submitted[j].run /\ submitted[i].run < monitor.run)
      => (submitted[i].judged \ submitted[i].relevant) \cap submitted[j].links = {}

\* C27: an article has a row in sent_articles only if a report message
\* with its entry was delivered, that is a call of send_message with it
\* returned True.
C27_RecordedOnlyIfDelivered ==
  \A row \in sent_articles :
    \E n \in DOMAIN posted :
      /\ posted[n].kind = "report"
      /\ row.url \in posted[n].links
      /\ posted[n].returned

(***************************************************************************)
(* calude_audit.py: the notifications table and run_full_scan, run again   *)
(* and again on the same database file.  The last_run table is written and *)
(* read but decides nothing, and is left out.                              *)
(***************************************************************************)
\* is_already_sent(conn, url)
audit_is_already_sent(table, url) ==
  \E row \in table : row.url = url /\ row.sent_to_telegram = 1

\* save_notification(...): the table after it and what it returns; the
\* INSERT raises sqlite3.IntegrityError when a row has the url (url UNIQUE)
save_notification(table, country, title, url, doc_date, source_type, change_type, keywords) ==
  IF \E row \in table : row.url = url
  THEN [table |-> table, returned |-> FALSE]
  ELSE [table |-> table \cup {[country |-> country, title |-> title, url |-> url,
                               doc_date |-> doc_date, sent_to_telegram |-> 0,
                               source_type |-> source_type,
                               change_type |-> change_type,
                               keywords_matched |-> keywords]},
        returned |-> TRUE]

\* mark_as_sent(conn, url)
mark_as_sent(table, url) ==
  {IF row.url = url THEN [row EXCEPT !.sent_to_telegram = 1] ELSE row : row \in table}

\* ", ".join(words)
RECURSIVE JoinComma(_)
JoinComma(words) ==
  IF words = <<>> THEN ""
  ELSE IF Len(words) = 1 THEN words[1]
  ELSE words[1] \o ", " \o JoinComma(Tail(words))

AUDIT_MAX_LINKS == 30
AUDIT_MAX_KEYWORDS == 5
AUDIT_TITLE_LENGTH == 75
MIN_LINK_TEXT == 3

\* fetch_links: the anchors of the page with a text of more than 3
\* characters and no "javascript" in the href, the href joined to the url
fetch_links(url, anchors) ==
  LET kept == SelectSeq(anchors, LAMBDA a : /\ Len(a.text) > MIN_LINK_TEXT
                                            /\ ~Contains(Lower(a.href), "javascript"))
  IN  [i \in DOMAIN kept |-> [title |-> kept[i].text, url |-> urljoin(url, kept[i].href)]]

\* REPOSITORIES of calude_audit.py: one of its countries
AuditSource ==
  [country |-> "Kenya", type |-> "KRA Public Notices",
   url |-> "https://www.kra.go.ke/news-center/public-notices"]

\* lines 306-317 for one item: what detect_change and extract_date give, and
\* the call of save_notification
Examined(source, item) ==
  LET is_pdf == EndsWith(Lower(item.url), ".pdf")
      detected == detect_change(source.country, item.title, "")
  IN  [is_pdf |-> is_pdf,
       change_type |-> detected[1],
       doc_date |-> IF is_pdf THEN extract_date(item.url) ELSE extract_date(item.title),
       keywords_str |-> JoinComma(Take(detected[2], AUDIT_MAX_KEYWORDS))]

SavedItem(table, source, item, found) ==
  save_notification(table, source.country, item.title, item.url, found.doc_date,
                    source.type, found.change_type, found.keywords_str)

\* lines 298-330 for one item of links[:30]: the table after it, and the
\* finding appended to country_findings, if any
ScanItem(table, source, item) ==
  IF audit_is_already_sent(table, item.url) THEN [table |-> table, findings |-> <<>>]
  ELSE LET found == Examined(source, item)
           saved == SavedItem(table, source, item, found)
       IN  IF found.change_type = None THEN [table |-> table, findings |-> <<>>]
           ELSE IF saved.returned
           THEN [table |-> mark_as_sent(saved.table, item.url),
                 findings |-> <<[title |-> item.title, url |-> item.url,
                                 date |-> found.doc_date, keywords |-> found.keywords_str,
                                 source |-> source.type, is_pdf |-> found.is_pdf]>>]
           ELSE [table |-> saved.table, findings |-> <<>>]

\* lines 348-355: the report of a country
RECURSIVE AuditFindings(_)
AuditFindings(findings) ==
  IF findings = <<>> THEN ""
  ELSE (IF findings[1].is_pdf THEN "~ PDF" ELSE "= Notice") \o "\n"
         \o "*" \o Take(findings[1].title, AUDIT_TITLE_LENGTH) \o "*\n"
         \o "D " \o findings[1].date \o "\n"
         \o "K " \o findings[1].keywords \o "\n"
         \o "[> OPEN DOCUMENT](" \o findings[1].url \o ")\n\n"
         \o AuditFindings(Tail(findings))

AuditReport(country, findings) ==
  "! *" \o Upper(country) \o " - POLICY CHANGES DETECTED*\n\n" \o AuditFindings(findings)

NoChangesMessage == "V No policy changes detected since last run\n(Check again tomorrow)"

MaxCrashes == 1
\* the completed runs are counted up to this number
AUDIT_RUNS_SEEN == 2
BigPageLinks == AUDIT_MAX_LINKS + 1

SmallPage ==
  << Anchor("/notices/paye-rates-2026", "Public Notice: PAYE rates amended"),
     Anchor("javascript:void(0)", "Public Notice: print this page"),
     Anchor("/careers", "Careers at KRA"),
     Anchor("/about", "KRA"),
     Anchor("/docs/LN_22012026_nssf.pdf", "Legal Notice: NSSF rates changed") >>

BigPage ==
  [i \in 1..BigPageLinks |->
     Anchor("/notices/paye-" \o Str(i), "Public Notice: PAYE bands amended No. " \o Str(i))]

AuditPages == {<<>>, SmallPage, BigPage}

\* the links of the page that detect_change calls a policy change
Changes ==
  [page \in AuditPages |->
     {item.url : item \in {l \in SeqToSet(fetch_links(AuditSource.url, page)) :
                             detect_change(AuditSource.country, l.title, "")[1] # None}}]

AuditStopped(page, runs, last) ==
  [pc |-> "stopped", page |-> page, runs |-> runs, last |-> last]

NoRun == [completed |-> FALSE]

AuditInit ==
  /\ FilterIdle
  /\ acall = NoCall
  /\ scall = NoCall
  /\ RateIdle
  /\ MonitorIdle
  /\ notifications = {}
  /\ \E page \in AuditPages : audit = AuditStopped(page, 0, NoRun)
  /\ crashes = 0
  /\ StoreInit
  /\ ScannerIdle
  /\ ObserverInit

AuditUnchanged ==
  UNCHANGED <<filterVars, acall, scall, rateVars, monitorVars, storeVars, scanVars,
              observerVars>>

\* lines 277-296: the process starts and fetches the links of the source;
\* unsent holds the urls that are in the table with sent_to_telegram = 0
AuditStart ==
  /\ audit.pc = "stopped"
  /\ audit' = [pc |-> "items", page |-> audit.page, runs |-> audit.runs,
               links |-> Take(fetch_links(AuditSource.url, audit.page), AUDIT_MAX_LINKS),
               item |-> 1, country_findings |-> <<>>, total_found |-> 0,
               unsent |-> {row.url : row \in {r \in notifications : r.sent_to_telegram = 0}}]
  /\ UNCHANGED <<notifications, crashes>>
  /\ AuditUnchanged

\* lines 298-330, one item
AuditItem ==
  /\ audit.pc = "items"
  /\ audit.item <= Len(audit.links)
  /\ \E out \in {ScanItem(notifications, AuditSource, audit.links[audit.item])} :
       /\ notifications' = out.table
       /\ audit' = [audit EXCEPT !.item = @ + 1,
                                 !.country_findings = @ \o out.findings,
                                 !.total_found = @ + Len(out.findings)]
  /\ UNCHANGED crashes
  /\ AuditUnchanged

\* the process is killed after the commit of save_notification (line 71)
\* and before mark_as_sent (line 318)
AuditKilled ==
  /\ audit.pc = "items"
  /\ audit.item <= Len(audit.links)
  /\ crashes < MaxCrashes
  /\ \E item \in {audit.links[audit.item]} :
       \E found \in {Examined(AuditSource, item)} :
         \E saved \in {SavedItem(notifications, AuditSource, item, found)} :
           /\ ~audit_is_already_sent(notifications, item.url)
           /\ found.change_type # None
           /\ saved.returned
           /\ notifications' = saved.table
  /\ audit' = AuditStopped(audit.page, audit.runs, NoRun)
  /\ crashes' = crashes + 1
  /\ AuditUnchanged

\* what an observer records of one call of send_telegram
AuditPosted(kind, findings, call) ==
  [kind |-> kind,
   links |-> {f.url : f \in {g \in SeqToSet(findings) :
                Contains(call.posts[1].text, "](" \o g.url \o ")")}}]

\* lines 337-374: the reports are sent and the process ends
AuditFinish ==
  /\ audit.pc = "items"
  /\ audit.item > Len(audit.links)
  /\ audit' =
       AuditStopped(audit.page, Min(audit.runs + 1, AUDIT_RUNS_SEEN),
         [completed |-> TRUE,
          links |-> {audit.links[i].url : i \in DOMAIN audit.links},
          findings |-> {audit.country_findings[i].url : i \in DOMAIN audit.country_findings},
          unsent |-> audit.unsent,
          posted |->
            <<IF audit.country_findings # <<>>
              THEN AuditPosted("report", audit.country_findings,
                               send_telegram(AuditReport(AuditSource.country,
                                                         audit.country_findings),
                                             <<TelegramOk>>))
              ELSE AuditPosted("no_changes", <<>>,
                               send_telegram(NoChangesMessage, <<TelegramOk>>))>>])
  /\ UNCHANGED <<notifications, crashes>>
  /\ AuditUnchanged

AuditNext == AuditStart \/ AuditItem \/ AuditKilled \/ AuditFinish

SpecAudit == AuditInit /\ [][AuditNext]_vars

Completed == audit.pc = "stopped" /\ audit.last.completed

\* C28: a URL that is in notifications with sent_to_telegram = 0, is
\* harvested again and is again detected as a policy change, is in the
\* findings of that run and is marked as sent.
C28_UnsentIsReportedAndMarked ==
  Completed
    => \A url \in (audit.last.unsent \cap audit.last.links) \cap Changes[audit.page] :
         /\ url \in audit.last.findings
         /\ audit_is_already_sent(notifications, url)

AllPersisted == \A url \in Changes[audit.page] : \E row \in notifications : row.url = url

\* C26: with a constant harvest of more links that pass the filter than
\* the cap of 30, repeated completed scans eventually process and persist
\* every link of the harvest: the links beyond the first 30 are picked up
\* by later scans, so a completed scan that follows a completed scan and
\* leaves a link of the harvest without a row has persisted at least one
\* link more.
C26_LaterScansPersistTheRest ==
  (Completed /\ audit.runs >= 2) => (AllPersisted \/ audit.last.findings # {})

====